---- MODULE Spec2Model ----
(***************************************************************************)
(* Model of the Elang backend core:                                        *)
(*   - the monitoring-job registry of DependenciesService                  *)
(*     (StartMonitoringApplication / StopMonitoringApplication /           *)
(*     GetMonitoringStatus and the per-job background goroutine),          *)
(*   - the bounded fan-out of SharedScanner.ScanDependenciesWithControl    *)
(*     and the lookups of CVEHelper.CheckDependencyVulnerabilities,        *)
(*   - the unbounded fan-out of the repository's                           *)
(*     ScanApplicationDependencies,                                        *)
(*   - the SBOM export that ends a scan,                                   *)
(*   - the pure helpers AggregateVulnerabilitySummary and EvaluatePolicy.  *)
(* The specifications share the variables: Spec / FairSpec (registry),     *)
(* ScanSpec / FairScanSpec (one scan call), CheckSpec (the check of one    *)
(* dependency), AppScanSpec (one application scan), ExportSpec (the        *)
(* export) and PureSpec (the pure helpers on enumerated inputs).  A        *)
(* specification leaves the other parts' variables at their initial        *)
(* values.                                                                 *)
(***************************************************************************)
EXTENDS Integers, Sequences, FiniteSets, TLC

\* ------------------------------------------------------------------------
\* Bounds
\* ------------------------------------------------------------------------
\* goroutines launched by StartMonitoringApplication over a run
MaxJobs == 2
\* ticker firings handled by one job
MaxTicks == 2
\* dependencies handed to one scan
MaxDeps == 2
\* findings handed to AggregateVulnerabilitySummary
MaxFindings == 3
\* severities in a failOn list
MaxFailOn == 2
\* largest maxConcurrent given to NewSharedScanner (0 selects the default)
MaxConcurrentArg == 2

\* ------------------------------------------------------------------------
\* Registry: domains
\* ------------------------------------------------------------------------
\* applications present in the application repository
Apps == {"a1", "a2", "a3"}
\* the runtime of an application: a1 has a runtime record, the runtime id of
\* a2 names no record of the runtime repository, a3 has no runtime id
RuntimeOf(app) ==
    CASE app = "a2" -> "missing"
      [] app = "a3" -> "noID"
      [] OTHER -> "present"
\* appID strings a caller can pass: known applications, a well-formed id of
\* no application, and a string uuid.Parse rejects
AppIDs == Apps \cup {"unknown", "malformed"}
JobIDs == 1..MaxJobs

ErrNil == "nil"
ErrInvalidAppID == "invalid appID"
ErrAppNotFound == "application not found"
ErrJobNotFound == "monitoring job not found"
\* runtime panics
ErrClosePanic == "panic: close of closed channel"
ErrNilPanic == "panic: nil pointer dereference"
\* errors that report a failed application lookup
LookupErrors == {ErrInvalidAppID, ErrAppNotFound}

VARIABLES
    activeJobs,  \* s.activeJobs: the set of job ids that are keys of the map
    jobApp,      \* Job.AppIDs[0] of the job a goroutine creates
    jpc,         \* position of each job goroutine
    StopChan,    \* "none" (not made yet), "open" or "closed"
    Progress,    \* jobContext.Progress of each job
    ticks,       \* ticker firings a job has handled
    panicked,    \* the process died of a panic nothing recovered
    lastCall,    \* the API call that has just returned, with its result and
                 \* its precondition, or the tick that has just ended; NoCall
                 \* once a goroutine has taken another step
    hist         \* per application: history of Start/Stop calls

regVars == <<activeJobs, jobApp, jpc, StopChan, Progress, ticks, panicked,
             lastCall, hist>>

\* one ScanDependenciesWithControl call
VARIABLES
    maxConcurrent, \* ss.maxConcurrent of the scanner the call runs on
    dependencies,  \* the argument: a sequence of DependencyInfo
    ctxDone,       \* the caller's context is cancelled
    scanPc,        \* position of the calling goroutine
    nextDep,       \* index of the next dependency the loop handles
    semaphore,     \* number of tokens in the buffered channel
    semClosed,     \* close(semaphore) has run
    wg,            \* the WaitGroup counter
    worker,        \* per dependency index: the state of its goroutine
    findings,      \* the named results of the call
    depsWithVulns,
    totals,
    findingOf      \* per dependency index: the finding its goroutine appended

scanVars == <<maxConcurrent, dependencies, ctxDone, scanPc, nextDep, semaphore,
              semClosed, wg, worker, findings, depsWithVulns, totals,
              findingOf>>

\* the pure helpers on enumerated inputs
VARIABLES
    findingsIn,    \* argument of AggregateVulnerabilitySummary
    summaryOut,    \* its result for findingsIn, or NoResult
    prevSummary,   \* its result for the ordering before the last Permute
    failOn,        \* the failOn argument of the last EvaluatePolicy
    policyOut      \* its result, or NoResult

pureVars == <<findingsIn, summaryOut, prevSummary, failOn, policyOut>>

\* the tail of a scan call: export of the document and return
VARIABLES
    sbomData,      \* the EnhancedSBOMData of the last export, or NoResult
    sbomDocs,      \* the documents generated from sbomData, oldest first
    saveOutcome,   \* what became of the object-storage write of the call
    objectStorage, \* the objects the storage holds
    callResult     \* what the scan call returned, or NoResult

exportVars == <<sbomData, sbomDocs, saveOutcome, objectStorage, callResult>>

vars == <<regVars, scanVars, pureVars, exportVars>>

\* njobs: how many jobs of the application the map held when the call began
NoCall == [op |-> "none", app |-> "none", err |-> ErrNil, monitoring |-> FALSE,
           njobs |-> 0]

InitProgress == [CompletedChecks |-> 0, FailedChecks |-> 0,
                 CurrentOperation |-> "initializing"]

\* a registry search that takes any registered job for a job of app
JobsOfAny(app) == activeJobs

\* jobs registered in activeJobs whose AppIDs contains app
JobsOf(app) == {j \in activeJobs : jobApp[j] = app}

\* getAppByID: the error of the application lookup
getAppByID(appID) ==
    IF appID = "malformed" THEN ErrInvalidAppID
    ELSE IF appID \notin Apps THEN ErrAppNotFound
    ELSE ErrNil

RegInit ==
    /\ activeJobs = {}
    /\ jobApp = [j \in JobIDs |-> "none"]
    /\ jpc = [j \in JobIDs |-> "unborn"]
    /\ StopChan = [j \in JobIDs |-> "none"]
    /\ Progress = [j \in JobIDs |-> InitProgress]
    /\ ticks = [j \in JobIDs |-> 0]
    /\ panicked = FALSE
    /\ lastCall = NoCall
    /\ hist = [a \in Apps |-> "none"]

\* the absent value of a result and of a finding
NoResult == [absent |-> "result"]
NoFinding == [absent |-> "finding"]
ZeroTotals == [Critical |-> 0, High |-> 0, Medium |-> 0, Low |-> 0]

\* no scan call in progress
ScanIdle ==
    /\ maxConcurrent = 0
    /\ dependencies = <<>>
    /\ ctxDone = FALSE
    /\ scanPc = "idle"
    /\ nextDep = 1
    /\ semaphore = 0
    /\ semClosed = FALSE
    /\ wg = 0
    /\ worker = <<>>
    /\ findings = <<>>
    /\ depsWithVulns = <<>>
    /\ totals = ZeroTotals
    /\ findingOf = <<>>

\* no scan call has reached its export
ExportIdle ==
    /\ sbomData = NoResult
    /\ sbomDocs = <<>>
    /\ saveOutcome = "none"
    /\ objectStorage = {}
    /\ callResult = NoResult

\* no helper call made
PureIdle ==
    /\ findingsIn = <<>>
    /\ summaryOut = NoResult
    /\ prevSummary = NoResult
    /\ failOn = <<>>
    /\ policyOut = NoResult

Init == RegInit /\ ScanIdle /\ PureIdle /\ ExportIdle

\* history of an application after a Start that returned nil
HistAfterStart(h) == IF h = "none" THEN "started" ELSE "void"
\* history of an application after a Stop call
HistAfterStop(h) == IF h = "started" THEN "stopped" ELSE h

\* the record of an API call that returns err
CallRecord(op, appID, err) ==
    [NoCall EXCEPT !.op = op, !.app = appID, !.err = err,
                   !.njobs = Cardinality(JobsOf(appID))]

\* StartMonitoringApplication: look the application up, read its runtime
\* (*app.RuntimeID panics on a nil id, and the router's recovery middleware
\* ends the request; a runtime id without a record yields a nil runtime and
\* no error), launch the goroutine and return nil; the goroutine registers
\* the job later (JobRegister)
StartMonitoringApplication(appID) ==
    /\ ~panicked
    /\ LET err == getAppByID(appID) IN
       IF err # ErrNil
       THEN /\ lastCall' = CallRecord("Start", appID, err)
            /\ UNCHANGED <<jobApp, jpc, hist>>
       ELSE IF RuntimeOf(appID) = "noID"
       THEN /\ lastCall' = CallRecord("Start", appID, ErrNilPanic)
            /\ UNCHANGED <<jobApp, jpc, hist>>
       ELSE /\ \E j \in JobIDs :
                /\ jpc[j] = "unborn"
                /\ \A i \in JobIDs : i < j => jpc[i] # "unborn"
                /\ jpc' = [jpc EXCEPT ![j] = "spawned"]
                /\ jobApp' = [jobApp EXCEPT ![j] = appID]
            /\ lastCall' = CallRecord("Start", appID, ErrNil)
            /\ hist' = [hist EXCEPT ![appID] = HistAfterStart(@)]
    /\ UNCHANGED <<activeJobs, StopChan, Progress, ticks, panicked>>
    /\ UNCHANGED <<scanVars, pureVars, exportVars>>

\* StopMonitoringApplication without the delete: the closed job stays in the
\* map
StopWithoutDelete(appID) ==
    /\ ~panicked
    /\ LET err == getAppByID(appID) IN
       IF err # ErrNil
       THEN /\ lastCall' = CallRecord("Stop", appID, err)
            /\ UNCHANGED <<activeJobs, StopChan, panicked, hist>>
       ELSE /\ hist' = [hist EXCEPT ![appID] = HistAfterStop(@)]
            /\ IF JobsOf(appID) = {}
               THEN /\ lastCall' = CallRecord("Stop", appID, ErrJobNotFound)
                    /\ UNCHANGED <<activeJobs, StopChan, panicked>>
               ELSE \E j \in JobsOf(appID) :
                    IF StopChan[j] = "closed"
                    THEN /\ panicked' = TRUE
                         /\ lastCall' = CallRecord("Stop", appID, ErrClosePanic)
                         /\ UNCHANGED <<activeJobs, StopChan>>
                    ELSE /\ StopChan' = [StopChan EXCEPT ![j] = "closed"]
                         /\ lastCall' = CallRecord("Stop", appID, ErrNil)
                         /\ UNCHANGED <<activeJobs, panicked>>
    /\ UNCHANGED <<jobApp, jpc, Progress, ticks>>
    /\ UNCHANGED <<scanVars, pureVars, exportVars>>

\* StopMonitoringApplication: under the write lock, close the stop channel of
\* the first job of the application the map iteration meets and delete it
StopMonitoringApplication(appID) ==
    /\ ~panicked
    /\ LET err == getAppByID(appID) IN
       IF err # ErrNil
       THEN /\ lastCall' = CallRecord("Stop", appID, err)
            /\ UNCHANGED <<activeJobs, StopChan, panicked, hist>>
       ELSE /\ hist' = [hist EXCEPT ![appID] = HistAfterStop(@)]
            /\ IF JobsOf(appID) = {}
               THEN /\ lastCall' = CallRecord("Stop", appID, ErrJobNotFound)
                    /\ UNCHANGED <<activeJobs, StopChan, panicked>>
               ELSE \E j \in JobsOf(appID) :
                    IF StopChan[j] = "closed"
                    THEN \* close of a closed channel
                         /\ panicked' = TRUE
                         /\ lastCall' = CallRecord("Stop", appID, ErrClosePanic)
                         /\ UNCHANGED <<activeJobs, StopChan>>
                    ELSE /\ StopChan' = [StopChan EXCEPT ![j] = "closed"]
                         /\ activeJobs' = activeJobs \ {j}
                         /\ lastCall' = CallRecord("Stop", appID, ErrNil)
                         /\ UNCHANGED panicked
    /\ UNCHANGED <<jobApp, jpc, Progress, ticks>>
    /\ UNCHANGED <<scanVars, pureVars, exportVars>>

\* GetMonitoringStatus: under the read lock, report whether a job of the
\* application is in the map
GetMonitoringStatus(appID) ==
    /\ ~panicked
    /\ LET err == getAppByID(appID) IN
       lastCall' = [CallRecord("Status", appID, err)
                       EXCEPT !.monitoring = (err = ErrNil /\ JobsOf(appID) # {})]
    /\ UNCHANGED <<activeJobs, jobApp, jpc, StopChan, Progress, ticks,
                   panicked, hist>>
    /\ UNCHANGED <<scanVars, pureVars, exportVars>>

\* goroutine: make the stop channel and the job context, insert it under the
\* write lock
JobRegister(j) ==
    /\ ~panicked
    /\ jpc[j] = "spawned"
    /\ StopChan' = [StopChan EXCEPT ![j] = "open"]
    /\ Progress' = [Progress EXCEPT ![j] = InitProgress]
    /\ activeJobs' = activeJobs \cup {j}
    /\ jpc' = [jpc EXCEPT ![j] = "logcount"]
    /\ lastCall' = NoCall
    /\ UNCHANGED <<jobApp, ticks, panicked, hist>>
    /\ UNCHANGED <<scanVars, pureVars, exportVars>>

\* goroutine: slog.Info(... len(s.activeJobs)) after the unlock, then the
\* deferred cleanup is registered and the ticker made
JobLogCount(j) ==
    /\ ~panicked
    /\ jpc[j] = "logcount"
    /\ jpc' = [jpc EXCEPT ![j] = "select"]
    /\ lastCall' = NoCall
    /\ UNCHANGED <<activeJobs, jobApp, StopChan, Progress, ticks, panicked,
                   hist>>
    /\ UNCHANGED <<scanVars, pureVars, exportVars>>

\* goroutine: select takes case <-stopChan and returns
JobSelectStop(j) ==
    /\ ~panicked
    /\ jpc[j] = "select"
    /\ StopChan[j] = "closed"
    /\ jpc' = [jpc EXCEPT ![j] = "cleanup"]
    /\ lastCall' = NoCall
    /\ UNCHANGED <<activeJobs, jobApp, StopChan, Progress, ticks, panicked,
                   hist>>
    /\ UNCHANGED <<scanVars, pureVars, exportVars>>

\* goroutine: select takes case <-ticker.C; the tick starts
JobTickBegin(j) ==
    /\ ~panicked
    /\ jpc[j] = "select"
    /\ ticks[j] < MaxTicks
    /\ ticks' = [ticks EXCEPT ![j] = @ + 1]
    /\ Progress' = [Progress EXCEPT ![j].CurrentOperation = "scanning",
                                    ![j].FailedChecks = 0]
    /\ jpc' = [jpc EXCEPT ![j] = "tick"]
    /\ lastCall' = NoCall
    /\ UNCHANGED <<activeJobs, jobApp, StopChan, panicked, hist>>
    /\ UNCHANGED <<scanVars, pureVars, exportVars>>

\* what one tick can meet: the dependency fetch fails, the application has no
\* dependency, or the dependencies are scanned (depErrs dependency records
\* could not be read, scanned ones were handed to the scanner); in a scan a
\* vulnerability lookup can fail and the storage write of the SBOM can fail
TickOutcomes ==
    {[kind |-> "fetchFailed", depErrs |-> 0, scanned |-> 0, failure |-> "none"],
     [kind |-> "noDeps", depErrs |-> 0, scanned |-> 0, failure |-> "none"]}
    \cup {[kind |-> "scan", depErrs |-> e, scanned |-> s, failure |-> f] :
             e \in 0..1, s \in 0..1, f \in {"none", "lookup", "storage"}}

\* what a tick logs as its failure
TickError(o) ==
    CASE o.kind = "fetchFailed" -> "failed to get app dependencies"
      [] o.kind = "noDeps" -> "no dependencies found"
      [] o.kind = "scan" /\ o.failure = "lookup" -> "failed to check OSV database"
      [] o.kind = "scan" /\ o.failure = "storage" -> "failed to save SBOM"
      [] OTHER -> ErrNil

\* the record of a tick that has just ended
TickRecord(j, o) ==
    [NoCall EXCEPT !.op = "Tick", !.app = jobApp[j], !.err = TickError(o)]

\* goroutine: the rest of the tick, back to the select.  With a nil runtime
\* a tick that has dependencies reads runtime.Name, at the first dependency
\* record it could read or, when it could read none, when it builds the
\* SBOM data: the goroutine panics, its deferred cleanup runs and the
\* process dies
JobTickEnd(j) ==
    /\ ~panicked
    /\ jpc[j] = "tick"
    /\ \E o \in TickOutcomes :
         IF o.kind = "scan" /\ RuntimeOf(jobApp[j]) = "missing"
         THEN /\ \E e \in (IF o.scanned = 0 THEN {o.depErrs} ELSE 0..o.depErrs) :
                   Progress' = [Progress EXCEPT ![j] =
                       [@ EXCEPT !.FailedChecks = @ + e,
                                 !.CompletedChecks =
                                     IF o.scanned = 0 THEN 0 ELSE @]]
              /\ lastCall' = [NoCall EXCEPT !.op = "Tick", !.app = jobApp[j],
                                            !.err = ErrNilPanic]
              /\ panicked' = TRUE
              /\ activeJobs' = activeJobs \ {j}
              /\ jpc' = [jpc EXCEPT ![j] = "exited"]
         ELSE /\ Progress' = [Progress EXCEPT ![j] =
                    IF o.kind = "fetchFailed"
                    THEN [@ EXCEPT !.FailedChecks = @ + 1]
                    ELSE IF o.kind = "noDeps"
                    THEN @
                    ELSE [@ EXCEPT !.FailedChecks = @ + o.depErrs,
                                   !.CompletedChecks = o.scanned,
                                   !.CurrentOperation = "idle"]]
              /\ lastCall' = TickRecord(j, o)
              /\ jpc' = [jpc EXCEPT ![j] = "select"]
              /\ UNCHANGED <<activeJobs, panicked>>
    /\ UNCHANGED <<jobApp, StopChan, ticks, hist>>
    /\ UNCHANGED <<scanVars, pureVars, exportVars>>

\* a deferred cleanup that also closes the job's stop channel
JobCleanupCloses(j) ==
    /\ ~panicked
    /\ jpc[j] = "cleanup"
    /\ activeJobs' = activeJobs \ {j}
    /\ jpc' = [jpc EXCEPT ![j] = "exited"]
    /\ panicked' = (StopChan[j] = "closed")
    /\ StopChan' = [StopChan EXCEPT ![j] = "closed"]
    /\ lastCall' = IF StopChan[j] = "closed"
                   THEN [NoCall EXCEPT !.op = "Cleanup", !.app = jobApp[j],
                                       !.err = ErrClosePanic]
                   ELSE NoCall
    /\ UNCHANGED <<jobApp, Progress, ticks, hist>>
    /\ UNCHANGED <<scanVars, pureVars, exportVars>>

\* goroutine: the deferred cleanup deletes the job under the write lock
JobCleanup(j) ==
    /\ ~panicked
    /\ jpc[j] = "cleanup"
    /\ activeJobs' = activeJobs \ {j}
    /\ jpc' = [jpc EXCEPT ![j] = "exited"]
    /\ lastCall' = NoCall
    /\ UNCHANGED <<jobApp, StopChan, Progress, ticks, panicked, hist>>
    /\ UNCHANGED <<scanVars, pureVars, exportVars>>

Next ==
    \/ \E a \in AppIDs : StartMonitoringApplication(a)
    \/ \E a \in AppIDs : StopMonitoringApplication(a)
    \/ \E a \in AppIDs : GetMonitoringStatus(a)
    \/ \E j \in JobIDs : JobRegister(j)
    \/ \E j \in JobIDs : JobLogCount(j)
    \/ \E j \in JobIDs : JobSelectStop(j)
    \/ \E j \in JobIDs : JobTickBegin(j)
    \/ \E j \in JobIDs : JobTickEnd(j)
    \/ \E j \in JobIDs : JobCleanup(j)

Spec == Init /\ [][Next]_vars

\* the Go scheduler runs every runnable goroutine; a select whose stop case
\* is ready takes it eventually
FairSpec ==
    /\ Init /\ [][Next]_vars
    /\ \A j \in JobIDs :
        /\ WF_vars(JobRegister(j))
        /\ WF_vars(JobLogCount(j))
        /\ SF_vars(JobSelectStop(j))
        /\ WF_vars(JobTickEnd(j))
        /\ WF_vars(JobCleanup(j))

\* ------------------------------------------------------------------------
\* Strings: a name or a version is a sequence of one-character strings
\* ------------------------------------------------------------------------
Lower(c) ==
    CASE c = "A" -> "a" [] c = "B" -> "b" [] c = "C" -> "c" [] OTHER -> c
ToLower(s) == [i \in 1..Len(s) |-> Lower(s[i])]
Upper(c) ==
    CASE c = "a" -> "A" [] c = "b" -> "B" [] c = "c" -> "C" [] OTHER -> c
\* strings.ReplaceAll for one-character patterns
ReplaceAll(s, old, new) ==
    [i \in 1..Len(s) |-> IF s[i] = old THEN new ELSE s[i]]
Contains(s, c) == \E i \in 1..Len(s) : s[i] = c
RECURSIVE TrimLeft(_)
TrimLeft(s) == IF s # <<>> /\ Head(s) = " " THEN TrimLeft(Tail(s)) ELSE s
RECURSIVE TrimRight(_)
TrimRight(s) ==
    IF s # <<>> /\ s[Len(s)] = " "
    THEN TrimRight(SubSeq(s, 1, Len(s) - 1)) ELSE s
TrimSpace(s) == TrimRight(TrimLeft(s))
HasPrefix(s, pre) == Len(s) >= Len(pre) /\ SubSeq(s, 1, Len(pre)) = pre
TrimPrefix(s, pre) ==
    IF HasPrefix(s, pre) THEN SubSeq(s, Len(pre) + 1, Len(s)) ELSE s
\* strings.Index: the first position of sub in s, 0 when absent
Index(s, sub) ==
    LET hits == {i \in 1..(Len(s) - Len(sub) + 1) :
                    SubSeq(s, i, i + Len(sub) - 1) = sub}
    IN IF hits = {} THEN 0 ELSE CHOOSE i \in hits : \A k \in hits : i <= k
\* strings.Split(s, sub)[0]
FirstPart(s, sub) ==
    IF Index(s, sub) = 0 THEN s ELSE SubSeq(s, 1, Index(s, sub) - 1)
\* strings.ToLower on the runtime names the model uses
ToLowerRuntime(r) ==
    CASE r = "Python" -> "python" [] r = "Rust" -> "rust"
      [] r = "Node.js" -> "node.js" [] r = "Java" -> "java"
      [] r = "Go" -> "go" [] r = "Ruby" -> "ruby" [] r = "PHP" -> "php"
      [] r = "DotNet" -> "dotnet" [] r = "Gradle" -> "gradle"
      [] OTHER -> r

\* ------------------------------------------------------------------------
\* DependencyNameNormalizer
\* ------------------------------------------------------------------------
\* commonMappings of normalizePythonName
PythonCommonMappings(name) ==
    CASE name = <<"p", "i", "l">> -> <<"p", "i", "l", "l", "o", "w">>
      [] name = <<"y", "a", "m", "l">> -> <<"p", "y", "y", "a", "m", "l">>
      [] name = <<"p", "s", "y", "c", "o", "p", "g", "2">>
           -> <<"p", "s", "y", "c", "o", "p", "g", "2", "-",
                "b", "i", "n", "a", "r", "y">>
      [] OTHER -> name

normalizePythonName(name) ==
    PythonCommonMappings(ReplaceAll(ToLower(TrimSpace(name)), "_", "-"))

normalizeRustName(name) == ReplaceAll(ToLower(TrimSpace(name)), "_", "-")

\* commonMappings of normalizeDotNetName, keyed by the lowercased name
DotNetCommonMappings(lowerName, name) ==
    CASE lowerName = <<"s", "e", "r", "i", "l", "o", "g">>
           -> <<"S", "e", "r", "i", "l", "o", "g">>
      [] lowerName = <<"a", "u", "t", "o", "m", "a", "p", "p", "e", "r">>
           -> <<"A", "u", "t", "o", "M", "a", "p", "p", "e", "r">>
      [] OTHER -> name

normalizeDotNetName(name) ==
    LET n0 == TrimSpace(name)
        n1 == IF Contains(n0, "/") THEN FirstPart(n0, <<"/">>) ELSE n0
    IN DotNetCommonMappings(ToLower(n1), n1)

\* toTitleCase: every part between dots gets its first character in upper
\* case and the rest in lower case
toTitleCase(s) ==
    [i \in 1..Len(s) |->
        IF i = 1 \/ s[i - 1] = "." THEN Upper(s[i]) ELSE Lower(s[i])]

\* NormalizeName for the runtimes of the model's dependencies (python, pip,
\* dotnet, nuget, rust, cargo and names no branch of the switch matches)
NormalizeName(name, runtime) ==
    CASE ToLowerRuntime(runtime) \in {"python", "pip"}
           -> normalizePythonName(name)
      [] ToLowerRuntime(runtime) \in {"dotnet", "nuget"}
           -> normalizeDotNetName(name)
      [] ToLowerRuntime(runtime) \in {"rust", "cargo"}
           -> normalizeRustName(name)
      [] OTHER -> TrimSpace(name)

NormalizeVersion(version) ==
    LET v0 == TrimSpace(version)
        v1 == TrimPrefix(v0, <<"^">>)
        v2 == TrimPrefix(v1, <<"~">>)
        v3 == TrimPrefix(v2, <<">", "=">>)
        v4 == TrimPrefix(v3, <<"<", "=">>)
        v5 == TrimPrefix(v4, <<">">>)
        v6 == TrimPrefix(v5, <<"<">>)
        v7 == TrimPrefix(v6, <<"=">>)
        v8 == TrimPrefix(v7, <<"v">>)
        v9 == IF Index(v8, <<" ", "-", " ">>) # 0
              THEN TrimSpace(FirstPart(v8, <<" ", "-", " ">>)) ELSE v8
        v10 == IF Index(v9, <<" ", "|", "|", " ">>) # 0
               THEN TrimSpace(FirstPart(v9, <<" ", "|", "|", " ">>)) ELSE v9
        v11 == IF Index(v10, <<" ">>) # 0
               THEN SubSeq(v10, 1, Index(v10, <<" ">>) - 1) ELSE v10
    IN TrimSpace(v11)

NormalizeDependencyInfo(dep) ==
    [dep EXCEPT !.Name = NormalizeName(dep.Name, dep.Runtime),
                !.Version = NormalizeVersion(dep.Version)]

\* supportedRuntimes of ValidateForCVECheck
CVESupportedRuntimes ==
    {"go", "node", "npm", "python", "pip", "java", "maven", "gradle",
     "dotnet", "nuget", "ruby", "gem", "php", "composer", "rust", "cargo"}

\* a ValidateForCVECheck that does not look at the version
ValidateWithoutVersion(dep) ==
    /\ TrimSpace(dep.Name) # <<>>
    /\ ToLowerRuntime(dep.Runtime) \in CVESupportedRuntimes

ValidateForCVECheck(dep) ==
    /\ TrimSpace(dep.Name) # <<>>
    /\ TrimSpace(dep.Version) # <<>>
    /\ ToLowerRuntime(dep.Runtime) \in CVESupportedRuntimes

RECURSIVE RemoveDuplicates(_, _)
RemoveDuplicates(seq, seen) ==
    IF seq = <<>> THEN <<>>
    ELSE IF Head(seq) \in seen THEN RemoveDuplicates(Tail(seq), seen)
    ELSE <<Head(seq)>> \o RemoveDuplicates(Tail(seq), seen \cup {Head(seq)})

\* GetSuggestedNames for the runtimes of the model's dependencies
GetSuggestedNames(dep) ==
    LET baseName == NormalizeName(dep.Name, dep.Runtime)
        variants ==
            IF ToLowerRuntime(dep.Runtime) \in {"python", "pip", "rust", "cargo"}
            THEN (IF Contains(baseName, "-")
                  THEN <<ReplaceAll(baseName, "-", "_")>> ELSE <<>>)
                 \o (IF Contains(baseName, "_")
                     THEN <<ReplaceAll(baseName, "_", "-")>> ELSE <<>>)
            ELSE IF ToLowerRuntime(dep.Runtime) \in {"dotnet", "nuget"}
            THEN (IF ToLower(baseName) # baseName
                  THEN <<ToLower(baseName)>> ELSE <<>>)
                 \o (IF toTitleCase(baseName) # baseName
                        /\ toTitleCase(baseName) # ToLower(baseName)
                     THEN <<toTitleCase(baseName)>> ELSE <<>>)
            ELSE <<>>
    IN RemoveDuplicates(<<baseName>> \o variants, {})

\* ------------------------------------------------------------------------
\* CVEHelper
\* ------------------------------------------------------------------------
getEcosystemForRuntime(runtime) ==
    LET r == ToLowerRuntime(runtime) IN
    CASE r = "go" -> "Go"
      [] r \in {"node", "npm"} -> "npm"
      [] r \in {"python", "pip"} -> "PyPI"
      [] r \in {"java", "maven"} -> "Maven"
      [] r = "gradle" -> "Maven"
      [] r \in {"dotnet", "nuget"} -> "NuGet"
      [] r \in {"ruby", "gem"} -> "RubyGems"
      [] r \in {"php", "composer"} -> "Packagist"
      [] r \in {"rust", "cargo"} -> "crates.io"
      [] OTHER -> ""

\* the query checkOSVDatabase posts for dep
OSVQuery(dep) ==
    [name |-> NormalizeName(dep.Name, dep.Runtime),
     ecosystem |-> getEcosystemForRuntime(dep.Runtime),
     version |-> NormalizeVersion(dep.Version)]

\* the vulnerability ids the OSV service knows for a query
OSVVulns(query) ==
    IF query.name = <<"a", "-", "b">> /\ query.ecosystem = "PyPI"
    THEN <<"GHSA-1", "CVE-2">>
    ELSE IF query.name = <<"d">> /\ query.ecosystem = "crates.io"
    THEN <<"CVE-9">>
    ELSE <<>>

\* the severity the OSV service's record of a vulnerability carries; the
\* OSVVulnerability struct the response is decoded into has no field for it
SourceSeverity(osvID) ==
    CASE osvID = "CVE-9" -> "CRITICAL"
      [] osvID = "GHSA-1" -> "HIGH"
      [] OTHER -> "MEDIUM"

SeverityMedium == "MEDIUM"
\* the default score convertOSVToVulnerabilityInfo assigns
DefaultScore == 5

\* the versions the "introduced" events of the OSV service's record name
AffectedVersionsOf(osvID) ==
    IF osvID \in {"GHSA-1", "CVE-9"} THEN <<"0">> ELSE <<>>

convertOSVToVulnerabilityInfo(osvID) ==
    [ID |-> osvID, Severity |-> SeverityMedium, Score |-> DefaultScore,
     AttackVector |-> "", AffectedVersions |-> AffectedVersionsOf(osvID)]

CountSeverity(vulns, sev) ==
    Cardinality({i \in 1..Len(vulns) : vulns[i].Severity = sev})

RECURSIVE SumScores(_)
SumScores(vulns) ==
    IF vulns = <<>> THEN 0 ELSE Head(vulns).Score + SumScores(Tail(vulns))

\* updateVulnerabilityStats on a result that holds vulns
updateVulnerabilityStats(result) ==
    LET vulns == result.Vulnerabilities IN
    [result EXCEPT
        !.TotalCount = Len(vulns),
        !.IsVulnerable = (Len(vulns) > 0),
        !.CriticalCount = CountSeverity(vulns, "CRITICAL"),
        !.HighCount = CountSeverity(vulns, "HIGH"),
        !.MediumCount = CountSeverity(vulns, "MEDIUM"),
        !.LowCount = CountSeverity(vulns, "LOW"),
        !.RiskScore = IF Len(vulns) > 0
                      THEN SumScores(vulns) \div Len(vulns) ELSE 0]

generateRecommendations(result) ==
    IF ~result.IsVulnerable
    THEN <<"No known vulnerabilities found for this dependency.">>
    ELSE (IF result.CriticalCount > 0 \/ result.HighCount > 0
          THEN <<"URGENT: Update this dependency immediately due to critical/high severity vulnerabilities.">>
          ELSE <<>>)
         \o (IF Len(result.Vulnerabilities) > 0
             THEN <<"Review patched versions and update to the latest secure version.">>
             ELSE <<>>)
         \o (IF result.RiskScore > 7
             THEN <<"Consider finding alternative dependencies with better security track records.">>
             ELSE <<>>)
         \o (IF \E i \in 1..Len(result.Vulnerabilities) :
                    result.Vulnerabilities[i].AttackVector = "NETWORK"
             THEN <<"Network-based vulnerabilities detected. Review network exposure and access controls.">>
             ELSE <<>>)

\* the result CheckDependencyVulnerabilities starts from
EmptyResult ==
    [Vulnerabilities |-> <<>>, IsVulnerable |-> FALSE, TotalCount |-> 0,
     CriticalCount |-> 0, HighCount |-> 0, MediumCount |-> 0, LowCount |-> 0,
     RiskScore |-> 0, Recommendations |-> <<>>, Error |-> ""]

\* the result CheckDependencyVulnerabilities returns for an invalid dependency
InvalidResult ==
    [EmptyResult EXCEPT !.Error = "Invalid dependency for CVE check"]

\* the result CheckDependencyVulnerabilities returns once the lookups are
\* over: osvVulns is what they yielded, failed whether err is still non-nil
LookupResult(osvVulns, failed) ==
    LET r0 == [EmptyResult EXCEPT
                  !.Error = IF failed THEN "OSV check failed" ELSE "",
                  !.Vulnerabilities =
                      [i \in 1..Len(osvVulns) |->
                          convertOSVToVulnerabilityInfo(osvVulns[i])]]
        r1 == updateVulnerabilityStats(r0)
    IN [r1 EXCEPT !.Recommendations = generateRecommendations(r1)]

\* ------------------------------------------------------------------------
\* SharedScanner.ScanDependenciesWithControl
\* ------------------------------------------------------------------------
\* the default NewSharedScanner falls back to
DefaultMaxConcurrent == 10
NewSharedScanner(m) == IF m <= 0 THEN DefaultMaxConcurrent ELSE m

\* the dependencies a scan can be given: a python package whose name has an
\* alternate spelling and two known vulnerabilities, a rust crate without
\* known vulnerabilities, and a rust crate with an empty version
DepPool ==
    {[Name |-> <<"A", "_", "b">>, Version |-> <<"v", "1">>, Runtime |-> "Python"],
     [Name |-> <<"c">>, Version |-> <<"1">>, Runtime |-> "rust"],
     [Name |-> <<"c">>, Version |-> <<>>, Runtime |-> "rust"]}

DepLists == UNION {[1..n -> DepPool] : n \in 0..MaxDeps}

\* lookups: the names of the checkOSVDatabase calls made so far; altOk: a
\* call under an alternate name has returned without error; altHit: it has
\* returned without error and with vulnerabilities
IdleWorker == [pc |-> "unborn", alt |-> 0, result |-> NoResult,
               primaryOk |-> FALSE, altOk |-> FALSE, altHit |-> FALSE,
               lookups |-> <<>>]

\* a CheckDependencyVulnerabilities that returns the lookup failure as its
\* error
CheckReturnsErrorOnFailure(result) == result.Error = "OSV check failed"

\* the error CheckDependencyVulnerabilities returns next to its result:
\* nil, also when the lookups failed
CheckReturnsError(result) == FALSE

\* the severity of a finding
FindingSeverity(result) ==
    IF result.CriticalCount > 0 THEN "critical"
    ELSE IF result.HighCount > 0 THEN "high"
    ELSE IF result.MediumCount > 0 THEN "medium"
    ELSE IF result.LowCount > 0 THEN "low"
    ELSE "none"

\* the ScanFinding the goroutine builds from the result of a dependency
FindingOf(dep, result) ==
    [Dependency |-> dep.Name,
     Version |-> dep.Version,
     Severity |-> FindingSeverity(result),
     VulnerabilityIDs |-> [i \in 1..Len(result.Vulnerabilities) |->
                              result.Vulnerabilities[i].ID],
     Recommendation |-> IF Len(result.Recommendations) > 0
                        THEN result.Recommendations[1] ELSE ""]

\* the DependencyWithVulnerabilities the goroutine builds
DepWithVulnOf(dep, result) ==
    [Name |-> dep.Name, Version |-> dep.Version, Runtime |-> dep.Runtime,
     Vulnerabilities |-> result.Vulnerabilities,
     RiskScore |-> result.RiskScore]

ScanInit ==
    /\ RegInit /\ PureIdle /\ ExportIdle
    /\ maxConcurrent \in {NewSharedScanner(m) : m \in 0..MaxConcurrentArg}
    /\ dependencies \in DepLists
    /\ ctxDone = FALSE
    /\ scanPc = "enter"
    /\ nextDep = 1
    /\ semaphore = 0
    /\ semClosed = FALSE
    /\ wg = 0
    /\ worker = [i \in 1..Len(dependencies) |-> IdleWorker]
    /\ findings = <<>>
    /\ depsWithVulns = <<>>
    /\ totals = ZeroTotals
    /\ findingOf = [i \in 1..Len(dependencies) |-> NoFinding]

\* the caller cancels the context
ScanCancel ==
    /\ scanPc \in {"enter", "loop"}
    /\ ~ctxDone
    /\ ctxDone' = TRUE
    /\ UNCHANGED <<maxConcurrent, dependencies, scanPc, nextDep, semaphore,
                   semClosed, wg, worker, findings, depsWithVulns, totals,
                   findingOf>>
    /\ UNCHANGED <<regVars, pureVars, exportVars>>

\* the empty list returns at once; otherwise the channel and the result
\* slices are made
ScanEnter ==
    /\ scanPc = "enter"
    /\ scanPc' = IF Len(dependencies) = 0 THEN "done" ELSE "loop"
    /\ UNCHANGED <<maxConcurrent, dependencies, ctxDone, nextDep, semaphore,
                   semClosed, wg, worker, findings, depsWithVulns, totals,
                   findingOf>>
    /\ UNCHANGED <<regVars, pureVars, exportVars>>

\* a loop iteration that takes no semaphore slot
ScanSpawnUnbounded ==
    /\ scanPc = "loop"
    /\ nextDep <= Len(dependencies)
    /\ wg' = wg + 1
    /\ worker' = [worker EXCEPT ![nextDep].pc = "begin"]
    /\ nextDep' = nextDep + 1
    /\ UNCHANGED <<maxConcurrent, dependencies, ctxDone, scanPc, semaphore,
                   semClosed, findings, depsWithVulns, totals, findingOf>>
    /\ UNCHANGED <<regVars, pureVars, exportVars>>

\* one loop iteration: wg.Add(1), send on the semaphore (blocks while it is
\* full), start the goroutine
ScanSpawn ==
    /\ scanPc = "loop"
    /\ nextDep <= Len(dependencies)
    /\ semaphore < maxConcurrent
    /\ wg' = wg + 1
    /\ semaphore' = semaphore + 1
    /\ worker' = [worker EXCEPT ![nextDep].pc = "begin"]
    /\ nextDep' = nextDep + 1
    /\ UNCHANGED <<maxConcurrent, dependencies, ctxDone, scanPc, semClosed,
                   findings, depsWithVulns, totals, findingOf>>
    /\ UNCHANGED <<regVars, pureVars, exportVars>>

\* after the loop: wg.Wait() returns, close(semaphore), return
ScanWait ==
    /\ scanPc = "loop"
    /\ nextDep > Len(dependencies)
    /\ wg = 0
    /\ semClosed' = TRUE
    /\ scanPc' = "done"
    /\ UNCHANGED <<maxConcurrent, dependencies, ctxDone, nextDep, semaphore,
                   wg, worker, findings, depsWithVulns, totals, findingOf>>
    /\ UNCHANGED <<regVars, pureVars, exportVars>>

WorkerFrame ==
    /\ UNCHANGED <<maxConcurrent, dependencies, ctxDone, scanPc, nextDep,
                   semClosed>>
    /\ UNCHANGED <<regVars, pureVars, exportVars>>

\* goroutine: the cancellation check, then CheckDependencyVulnerabilities up
\* to its first lookup (normalize, validate)
WorkerBegin(i) ==
    /\ i \in DOMAIN worker
    /\ worker[i].pc = "begin"
    /\ worker' = [worker EXCEPT ![i] =
          IF ctxDone THEN [@ EXCEPT !.pc = "release"]
          ELSE IF ~ValidateForCVECheck(NormalizeDependencyInfo(dependencies[i]))
          THEN [@ EXCEPT !.pc = "merge", !.result = InvalidResult]
          ELSE [@ EXCEPT !.pc = "primary"]]
    /\ UNCHANGED <<semaphore, wg, findings, depsWithVulns, totals, findingOf>>
    /\ WorkerFrame

\* a retry loop that does not skip the first suggested name
AlternativesWithFirst(dep) == GetSuggestedNames(NormalizeDependencyInfo(dep))

\* the names CheckDependencyVulnerabilities retries a failed lookup with
Alternatives(dep) == Tail(GetSuggestedNames(NormalizeDependencyInfo(dep)))

\* whether a lookup can succeed: not without an ecosystem, not on a
\* cancelled context
LookupCanSucceed(dep) == OSVQuery(dep).ecosystem # "" /\ ~ctxDone

\* goroutine: the lookup under the normalized name returns
WorkerPrimary(i) ==
    /\ i \in DOMAIN worker
    /\ worker[i].pc = "primary"
    /\ LET nd == NormalizeDependencyInfo(dependencies[i]) IN
       \E ok \in BOOLEAN :
         /\ ok => LookupCanSucceed(nd)
         /\ worker' = [worker EXCEPT ![i] =
              IF ok
              THEN [@ EXCEPT !.pc = "merge", !.primaryOk = TRUE,
                       !.lookups = <<nd.Name>>,
                       !.result = LookupResult(OSVVulns(OSVQuery(nd)), FALSE)]
              ELSE IF Alternatives(dependencies[i]) = <<>>
              THEN [@ EXCEPT !.pc = "merge",
                             !.lookups = <<nd.Name>>,
                             !.result = LookupResult(<<>>, TRUE)]
              ELSE [@ EXCEPT !.pc = "alt", !.alt = 1,
                             !.lookups = <<nd.Name>>]]
    /\ UNCHANGED <<semaphore, wg, findings, depsWithVulns, totals, findingOf>>
    /\ WorkerFrame

\* a retry loop that takes the vulnerabilities of the alternate and leaves
\* err as the first lookup set it
WorkerAltKeepsError(i) ==
    /\ i \in DOMAIN worker
    /\ worker[i].pc = "alt"
    /\ LET nd == NormalizeDependencyInfo(dependencies[i])
           alts == Alternatives(dependencies[i])
           altDep == [nd EXCEPT !.Name = alts[worker[i].alt]]
       IN \E ok \in BOOLEAN :
         /\ ok => LookupCanSucceed(altDep)
         /\ worker' = [worker EXCEPT ![i] =
              IF ok /\ Len(OSVVulns(OSVQuery(altDep))) > 0
              THEN [@ EXCEPT !.pc = "merge", !.altOk = TRUE, !.altHit = TRUE,
                       !.lookups = Append(@, altDep.Name),
                       !.result = LookupResult(OSVVulns(OSVQuery(altDep)), TRUE)]
              ELSE IF worker[i].alt < Len(alts)
              THEN [@ EXCEPT !.alt = @ + 1, !.altOk = (@ \/ ok),
                             !.lookups = Append(@, altDep.Name)]
              ELSE [@ EXCEPT !.pc = "merge", !.altOk = (@ \/ ok),
                             !.lookups = Append(@, altDep.Name),
                             !.result = LookupResult(<<>>, TRUE)]]
    /\ UNCHANGED <<semaphore, wg, findings, depsWithVulns, totals, findingOf>>
    /\ WorkerFrame

\* goroutine: the lookup under an alternate name returns
WorkerAlt(i) ==
    /\ i \in DOMAIN worker
    /\ worker[i].pc = "alt"
    /\ LET nd == NormalizeDependencyInfo(dependencies[i])
           alts == Alternatives(dependencies[i])
           altDep == [nd EXCEPT !.Name = alts[worker[i].alt]]
       IN \E ok \in BOOLEAN :
         /\ ok => LookupCanSucceed(altDep)
         /\ worker' = [worker EXCEPT ![i] =
              IF ok /\ Len(OSVVulns(OSVQuery(altDep))) > 0
              THEN [@ EXCEPT !.pc = "merge", !.altOk = TRUE, !.altHit = TRUE,
                       !.lookups = Append(@, altDep.Name),
                       !.result = LookupResult(OSVVulns(OSVQuery(altDep)), FALSE)]
              ELSE IF worker[i].alt < Len(alts)
              THEN [@ EXCEPT !.alt = @ + 1, !.altOk = (@ \/ ok),
                             !.lookups = Append(@, altDep.Name)]
              ELSE [@ EXCEPT !.pc = "merge", !.altOk = (@ \/ ok),
                             !.lookups = Append(@, altDep.Name),
                             !.result = LookupResult(<<>>, TRUE)]]
    /\ UNCHANGED <<semaphore, wg, findings, depsWithVulns, totals, findingOf>>
    /\ WorkerFrame

\* goroutine: return on a non-nil error, otherwise build the finding and
\* append it under mu
WorkerMerge(i) ==
    /\ i \in DOMAIN worker
    /\ worker[i].pc = "merge"
    /\ worker' = [worker EXCEPT ![i].pc = "release"]
    /\ LET dep == dependencies[i]
           result == worker[i].result
       IN IF CheckReturnsError(result)
          THEN UNCHANGED <<findings, depsWithVulns, totals, findingOf>>
          ELSE /\ findings' = Append(findings, FindingOf(dep, result))
               /\ depsWithVulns' = Append(depsWithVulns, DepWithVulnOf(dep, result))
               /\ totals' = [Critical |-> totals.Critical + result.CriticalCount,
                             High |-> totals.High + result.HighCount,
                             Medium |-> totals.Medium + result.MediumCount,
                             Low |-> totals.Low + result.LowCount]
               /\ findingOf' = [findingOf EXCEPT ![i] = FindingOf(dep, result)]
    /\ UNCHANGED <<semaphore, wg>>
    /\ WorkerFrame

\* a deferred function that does not give its semaphore slot back
WorkerKeepsSlot(i) ==
    /\ i \in DOMAIN worker
    /\ worker[i].pc = "release"
    /\ worker' = [worker EXCEPT ![i].pc = "wgdone"]
    /\ UNCHANGED <<semaphore, wg, findings, depsWithVulns, totals, findingOf>>
    /\ WorkerFrame

\* goroutine: the deferred receive from the semaphore
WorkerRelease(i) ==
    /\ i \in DOMAIN worker
    /\ worker[i].pc = "release"
    /\ semaphore > 0 \/ semClosed
    /\ semaphore' = IF semaphore > 0 THEN semaphore - 1 ELSE 0
    /\ worker' = [worker EXCEPT ![i].pc = "wgdone"]
    /\ UNCHANGED <<wg, findings, depsWithVulns, totals, findingOf>>
    /\ WorkerFrame

\* goroutine: the deferred wg.Done(); the goroutine ends
WorkerDone(i) ==
    /\ i \in DOMAIN worker
    /\ worker[i].pc = "wgdone"
    /\ wg' = wg - 1
    /\ worker' = [worker EXCEPT ![i].pc = "exited"]
    /\ UNCHANGED <<semaphore, findings, depsWithVulns, totals, findingOf>>
    /\ WorkerFrame

ScanNext ==
    \/ ScanCancel
    \/ ScanEnter
    \/ ScanSpawn
    \/ ScanWait
    \/ \E i \in 1..MaxDeps : WorkerBegin(i)
    \/ \E i \in 1..MaxDeps : WorkerPrimary(i)
    \/ \E i \in 1..MaxDeps : WorkerAlt(i)
    \/ \E i \in 1..MaxDeps : WorkerMerge(i)
    \/ \E i \in 1..MaxDeps : WorkerRelease(i)
    \/ \E i \in 1..MaxDeps : WorkerDone(i)

ScanSpec == ScanInit /\ [][ScanNext]_vars

\* the dependencies a scan of a single dependency can be given: names and
\* versions that are empty, blank, or empty once normalized, supported and
\* unsupported runtimes, a crate with one critical vulnerability, and a
\* NuGet name with two alternate spellings
CheckDepPool ==
    {[Name |-> n, Version |-> v, Runtime |-> r] :
        n \in {<<"A", "_", "b">>, <<"A", "B">>, <<"d">>, <<" ">>, <<>>},
        v \in {<<"v", "1">>, <<"^">>, <<" ">>, <<>>},
        r \in {"Python", "rust", "dotnet", "Node.js", "cobol", ""}}

\* a scan of one dependency
CheckInit ==
    /\ RegInit /\ PureIdle /\ ExportIdle
    /\ maxConcurrent \in {NewSharedScanner(m) : m \in 0..MaxConcurrentArg}
    /\ dependencies \in [1..1 -> CheckDepPool]
    /\ ctxDone = FALSE
    /\ scanPc = "enter"
    /\ nextDep = 1
    /\ semaphore = 0
    /\ semClosed = FALSE
    /\ wg = 0
    /\ worker = [i \in 1..Len(dependencies) |-> IdleWorker]
    /\ findings = <<>>
    /\ depsWithVulns = <<>>
    /\ totals = ZeroTotals
    /\ findingOf = [i \in 1..Len(dependencies) |-> NoFinding]

CheckSpec == CheckInit /\ [][ScanNext]_vars

\* ------------------------------------------------------------------------
\* AggregateVulnerabilitySummary and EvaluatePolicy
\* ------------------------------------------------------------------------
\* strings.ToLower on the severity strings the model uses
ToLowerSeverity(sev) ==
    CASE sev = "High" -> "high" [] sev = "CRITICAL" -> "critical" [] OTHER -> sev

\* findings the helpers can be given: every bucket, a severity in capitals,
\* a severity no bucket matches, with and without vulnerability ids
FindingPool ==
    {[Dependency |-> <<"d">>, Version |-> <<"1">>, Severity |-> sev,
      VulnerabilityIDs |-> ids, Recommendation |-> ""] :
        sev \in {"critical", "High", "medium", "low", "bogus"},
        ids \in {<<>>, <<"V1", "V2">>}}

FindingLists == UNION {[1..n -> FindingPool] : n \in 0..MaxFindings}

ZeroSeverityCount ==
    [critical |-> 0, high |-> 0, medium |-> 0, low |-> 0, none |-> 0,
     ignored |-> 0]

\* a loop body that lets the severity alone decide the bucket
BucketOfSeverityOnly(f) ==
    IF ToLowerSeverity(f.Severity) \in {"critical", "high", "medium", "low"}
    THEN ToLowerSeverity(f.Severity)
    ELSE "ignored"

\* the bucket the loop body increments for a finding
BucketOf(f) ==
    IF Len(f.VulnerabilityIDs) = 0 THEN "none"
    ELSE IF ToLowerSeverity(f.Severity) \in {"critical", "high", "medium", "low"}
    THEN ToLowerSeverity(f.Severity)
    ELSE "ignored"

\* the loop over the findings: severityCount and totalVulns
RECURSIVE CountFindings(_, _, _)
CountFindings(fs, severityCount, totalVulns) ==
    IF fs = <<>> THEN [severityCount |-> severityCount, totalVulns |-> totalVulns]
    ELSE CountFindings(Tail(fs),
                       [severityCount EXCEPT ![BucketOf(Head(fs))] = @ + 1],
                       totalVulns + Len(Head(fs).VulnerabilityIDs))

\* a loop that lets the first finding decide the bucket of all of them
AggregateFirstSeverity(fs) ==
    LET c == CountFindings([i \in 1..Len(fs) |->
                               [fs[i] EXCEPT !.Severity = fs[1].Severity]],
                           ZeroSeverityCount, 0)
    IN [TotalDependencies |-> Len(fs),
        TotalVulnerabilities |-> c.totalVulns,
        Critical |-> c.severityCount.critical,
        High |-> c.severityCount.high,
        Medium |-> c.severityCount.medium,
        Low |-> c.severityCount.low,
        Ignored |-> c.severityCount.ignored,
        None |-> c.severityCount.none]

AggregateVulnerabilitySummary(fs) ==
    LET c == CountFindings(fs, ZeroSeverityCount, 0)
    IN [TotalDependencies |-> Len(fs),
        TotalVulnerabilities |-> c.totalVulns,
        Critical |-> c.severityCount.critical,
        High |-> c.severityCount.high,
        Medium |-> c.severityCount.medium,
        Low |-> c.severityCount.low,
        Ignored |-> c.severityCount.ignored,
        None |-> c.severityCount.none]

ReasonCritical == "Critical severity vulnerabilities found"
ReasonHigh == "High severity vulnerabilities found"
ReasonPass == "No blocking vulnerabilities found"

RECURSIVE EvaluatePolicy(_, _)
EvaluatePolicy(summary, fo) ==
    IF fo = <<>> THEN [status |-> "pass", reason |-> ReasonPass]
    ELSE IF Head(fo) = "critical" /\ summary.Critical > 0
    THEN [status |-> "fail", reason |-> ReasonCritical]
    ELSE IF Head(fo) = "high" /\ summary.High > 0
    THEN [status |-> "fail", reason |-> ReasonHigh]
    ELSE EvaluatePolicy(summary, Tail(fo))

\* the severity buckets a failOn list can name
PolicySeverities == {"critical", "high", "medium", "low"}
FailOnLists == UNION {[1..n -> PolicySeverities] : n \in 0..MaxFailOn}

PureInit ==
    /\ RegInit /\ ScanIdle /\ ExportIdle
    /\ findingsIn \in FindingLists
    /\ summaryOut = NoResult
    /\ prevSummary = NoResult
    /\ failOn = <<>>
    /\ policyOut = NoResult

\* summary := AggregateVulnerabilitySummary(findings)
Summarize ==
    /\ summaryOut = NoResult
    /\ summaryOut' = AggregateVulnerabilitySummary(findingsIn)
    /\ UNCHANGED <<findingsIn, prevSummary, failOn, policyOut>>
    /\ UNCHANGED <<regVars, scanVars, exportVars>>

\* the same findings arrive in another order
Permute ==
    /\ summaryOut # NoResult
    /\ \E i, j \in 1..Len(findingsIn) :
         /\ i < j
         /\ findingsIn[i] # findingsIn[j]
         /\ findingsIn' = [findingsIn EXCEPT ![i] = findingsIn[j],
                                             ![j] = findingsIn[i]]
    /\ prevSummary' = summaryOut
    /\ summaryOut' = NoResult
    /\ failOn' = <<>>
    /\ policyOut' = NoResult
    /\ UNCHANGED <<regVars, scanVars, exportVars>>

\* policyStatus, policyReason := EvaluatePolicy(summary, failOn)
Evaluate ==
    /\ summaryOut # NoResult
    /\ \E fo \in FailOnLists :
         /\ failOn' = fo
         /\ policyOut' = EvaluatePolicy(summaryOut, fo)
    /\ UNCHANGED <<findingsIn, summaryOut, prevSummary>>
    /\ UNCHANGED <<regVars, scanVars, exportVars>>

PureNext ==
    \/ Summarize
    \/ Permute
    \/ Evaluate

PureSpec == PureInit /\ [][PureNext]_vars

\* ------------------------------------------------------------------------
\* SBOM export and the tail of ScanDependencies / ScanApplicationDependencies
\* ------------------------------------------------------------------------
\* values uuid.New() can return
MaxUUID == 2
UUIDs == 1..MaxUUID
\* instants time.Now() can return; 0 is the zero time.Time
MaxTime == 2
Times == 1..MaxTime

generateBomRef(name, version) == <<"pkg:", name, "@", version>>
generateVulnBomRef(vulnID, componentRef) == <<"vuln:", vulnID, componentRef>>

\* generatePurl for the runtimes of the model's dependencies
generatePurl(runtime, name, version) ==
    CASE ToLowerRuntime(runtime) \in {"python", "pip"}
           -> <<"pkg:pypi/", name, "@", version>>
      [] ToLowerRuntime(runtime) \in {"rust", "cargo"}
           -> <<"pkg:cargo/", name, "@", version>>
      [] OTHER -> <<"pkg:generic/", name, "@", version>>

\* VulnerabilityInfo.CVE: the id when it contains "CVE-", else empty
VulnCVE(osvID) == IF osvID \in {"CVE-2", "CVE-9"} THEN osvID ELSE ""

\* the component entry of a dependency
ComponentOf(dep) ==
    [BomRef |-> generateBomRef(dep.Name, dep.Version),
     Type |-> "library",
     Name |-> dep.Name,
     Version |-> dep.Version,
     Purl |-> generatePurl(dep.Runtime, dep.Name, dep.Version),
     Runtime |-> dep.Runtime,
     RiskScore |-> dep.RiskScore,
     VulnerabilityCount |-> Len(dep.Vulnerabilities)]

\* the vulnerability entries of a dependency, one per vulnerability
VulnEntriesOf(dep) ==
    [k \in 1..Len(dep.Vulnerabilities) |->
        [BomRef |-> generateVulnBomRef(dep.Vulnerabilities[k].ID,
                                       generateBomRef(dep.Name, dep.Version)),
         ID |-> VulnCVE(dep.Vulnerabilities[k].ID),
         Score |-> dep.Vulnerabilities[k].Score,
         Severity |-> dep.Vulnerabilities[k].Severity,
         Affects |-> IF Len(dep.Vulnerabilities[k].AffectedVersions) > 0
                     THEN <<[Ref |-> generateBomRef(dep.Name, dep.Version),
                             Versions |-> dep.Vulnerabilities[k].AffectedVersions]>>
                     ELSE <<>>]]

RECURSIVE AllVulnEntries(_)
AllVulnEntries(deps) ==
    IF deps = <<>> THEN <<>>
    ELSE VulnEntriesOf(Head(deps)) \o AllVulnEntries(Tail(deps))

\* the keys of the componentRefs map
ComponentRefs(deps) ==
    {generateBomRef(deps[i].Name, deps[i].Version) : i \in 1..Len(deps)}

\* the orders in which ranging over the componentRefs map can yield its keys
DependsOnOrders(deps) ==
    LET refs == ComponentRefs(deps) IN
    {s \in [1..Cardinality(refs) -> refs] : \A r \in refs : \E i \in DOMAIN s : s[i] = r}

\* the document GenerateEnhancedCycloneDXSBOM marshals for data when
\* time.Now() returns now, uuid.New() returns serial and the map iteration
\* yields dependsOn; json.MarshalIndent writes the fields in declaration order
GenerateEnhancedCycloneDXSBOM(data, now, serial, dependsOn) ==
    LET timestamp == IF data.ScanTimestamp = 0 THEN now ELSE data.ScanTimestamp
    IN [BomFormat |-> "CycloneDX",
        SpecVersion |-> "1.5",
        Version |-> 1,
        SerialNumber |-> <<"urn:uuid:", serial>>,
        Metadata |-> [Timestamp |-> timestamp,
                      Name |-> data.AppName,
                      AppID |-> data.AppID,
                      ScanTimestamp |-> timestamp,
                      TotalFindings |-> data.TotalFindings,
                      CriticalCount |-> data.CriticalCount,
                      HighCount |-> data.HighCount,
                      MediumCount |-> data.MediumCount,
                      LowCount |-> data.LowCount],
        Components |-> [i \in 1..Len(data.Dependencies) |->
                           ComponentOf(data.Dependencies[i])],
        Vulnerabilities |-> AllVulnEntries(data.Dependencies),
        Dependencies |-> <<[Ref |-> <<"app:", data.AppName>>,
                            DependsOn |-> dependsOn]>>]

\* MinioUsecase.SaveSBOM: the object key
SBOMObjectKey(appID, appName, day) == <<"sbom/", appName, day, appID, "_sbom.json">>

\* the outcomes of the storage step: the write succeeds, the write fails, no
\* object storage service is configured
SaveOutcomes == {"saved", "failed", "absent"}

\* a scan call that returns the error of a failed storage write
SaveErrorPropagated(outcome) ==
    IF outcome = "failed" THEN "failed to upload SBOM" ELSE ErrNil

\* the error a scan call returns for an outcome of the storage step: nil
SaveError(outcome) == ErrNil

\* the failOn list both scan calls use
ScanFailOn == <<"high", "critical">>

\* the ScanApplicationResult the scan calls build before the export
ScanApplicationResultOf(appID, fs) ==
    LET summary == AggregateVulnerabilitySummary(fs)
        policy == EvaluatePolicy(summary, ScanFailOn)
    IN [AppID |-> appID,
        AppName |-> "app",
        ScanStatus |-> "completed",
        Summary |-> summary,
        Policies |-> [FailOn |-> ScanFailOn, Status |-> policy.status,
                      Reason |-> policy.reason],
        Artifacts |-> [VulnerabilityReport |-> <<"scans/", appID, "/report">>,
                       SBOM |-> <<"scans/", appID, "/sbom">>],
        Findings |-> fs]

\* the EnhancedSBOMData the scan calls build
EnhancedSBOMDataOf(appID, now, fs, dwv, tot) ==
    [AppID |-> appID, AppName |-> "app", Dependencies |-> dwv,
     ScanTimestamp |-> now, TotalFindings |-> Len(fs),
     CriticalCount |-> tot.Critical, HighCount |-> tot.High,
     MediumCount |-> tot.Medium, LowCount |-> tot.Low]

\* from the summary to the return, common to both scan calls: build the
\* result, generate the document, write it to the object storage when there
\* is one, return the result
ExportTail(appID, fs, dwv, tot) ==
    \E now \in Times, serial \in UUIDs, outcome \in SaveOutcomes :
    \E dependsOn \in DependsOnOrders(dwv) :
      LET data == EnhancedSBOMDataOf(appID, now, fs, dwv, tot)
          doc == GenerateEnhancedCycloneDXSBOM(data, now, serial, dependsOn)
      IN /\ sbomData' = data
         /\ sbomDocs' = <<doc>>
         /\ saveOutcome' = outcome
         /\ objectStorage' =
               IF outcome = "saved"
               THEN objectStorage
                      \cup {[key |-> SBOMObjectKey(appID, "app", now), doc |-> doc]}
               ELSE objectStorage
         /\ callResult' =
               IF SaveError(outcome) # ErrNil
               THEN [err |-> SaveError(outcome), result |-> NoResult]
               ELSE [err |-> ErrNil,
                     result |-> ScanApplicationResultOf(appID, fs)]

\* what CheckDependencyVulnerabilities can return for a dependency
CheckOutcomes(dep) ==
    LET nd == NormalizeDependencyInfo(dep) IN
    IF ~ValidateForCVECheck(nd) THEN {InvalidResult}
    ELSE {LookupResult(OSVVulns(OSVQuery(nd)), FALSE), LookupResult(<<>>, TRUE)}

RECURSIVE SumField(_, _)
SumField(results, field) ==
    IF results = <<>> THEN 0
    ELSE Head(results)[field] + SumField(Tail(results), field)

\* the state in which ScanDependenciesWithControl has returned: every
\* goroutine has appended its finding (here in the order of the arguments)
\* and ended
ExportInit ==
    /\ RegInit /\ PureIdle /\ ExportIdle
    /\ maxConcurrent = DefaultMaxConcurrent
    /\ dependencies \in DepLists
    /\ ctxDone = FALSE
    /\ scanPc = "done"
    /\ nextDep = Len(dependencies) + 1
    /\ semaphore = 0
    /\ semClosed = (dependencies # <<>>)
    /\ wg = 0
    /\ \E results \in [1..Len(dependencies) -> UNION {CheckOutcomes(d) : d \in DepPool}] :
         /\ \A i \in 1..Len(dependencies) : results[i] \in CheckOutcomes(dependencies[i])
         /\ worker = [i \in 1..Len(dependencies) |->
                        [pc |-> "exited", alt |-> 0,
                         result |-> results[i],
                         primaryOk |-> results[i].Error = "",
                         altOk |-> FALSE,
                         altHit |-> FALSE,
                         lookups |->
                            IF results[i] = InvalidResult THEN <<>>
                            ELSE IF results[i].Error = ""
                            THEN <<NormalizeDependencyInfo(dependencies[i]).Name>>
                            ELSE <<NormalizeDependencyInfo(dependencies[i]).Name>>
                                   \o Alternatives(dependencies[i])]]
         /\ findingOf = [i \in 1..Len(dependencies) |->
                           FindingOf(dependencies[i], results[i])]
         /\ depsWithVulns = [i \in 1..Len(dependencies) |->
                               DepWithVulnOf(dependencies[i], results[i])]
         /\ totals = [Critical |-> SumField(results, "CriticalCount"),
                      High |-> SumField(results, "HighCount"),
                      Medium |-> SumField(results, "MediumCount"),
                      Low |-> SumField(results, "LowCount")]
    /\ findings = findingOf

ExportFrame ==
    UNCHANGED <<regVars, scanVars, pureVars>>

\* ScanDependencies from the return of ScanDependenciesWithControl on; a
\* file without dependencies is refused before the scan
ScanDependencies ==
    /\ scanPc = "done"
    /\ callResult = NoResult
    /\ IF dependencies = <<>>
       THEN /\ callResult' = [err |-> "no dependencies found", result |-> NoResult]
            /\ UNCHANGED <<sbomData, sbomDocs, saveOutcome, objectStorage>>
       ELSE \E scanID \in UUIDs :
              ExportTail(scanID, findings, depsWithVulns, totals)
    /\ ExportFrame

\* the severity ScanApplicationDependencies gives a finding
AppFindingSeverity(result) ==
    IF result.CriticalCount > 0 THEN "critical"
    ELSE IF result.HighCount > 0 THEN "high"
    ELSE IF result.MediumCount > 0 THEN "medium"
    ELSE "low"

\* the finding ScanApplicationDependencies builds for a dependency
AppFindingOf(dep, result) ==
    [Dependency |-> <<dep.Name, ":", "repo">>,
     Version |-> dep.Version,
     Severity |-> AppFindingSeverity(result),
     VulnerabilityIDs |-> [i \in 1..Len(result.Vulnerabilities) |->
                              result.Vulnerabilities[i].ID],
     Recommendation |-> IF Len(result.Recommendations) > 0
                        THEN result.Recommendations[1] ELSE ""]

\* the subsequence of s at the positions in keep
RECURSIVE SelectAt(_, _, _)
SelectAt(s, keep, i) ==
    IF i > Len(s) THEN <<>>
    ELSE (IF i \in keep THEN <<s[i]>> ELSE <<>>) \o SelectAt(s, keep, i + 1)

\* ScanApplicationDependencies: the lookups of the application and of its
\* runtime (a nil runtime id panics and the recovery middleware ends the
\* request; a missing runtime record is an error), the fan-out over the application's dependencies (those whose
\* record has no owner or repo are skipped), then the same tail; appUID is
\* the id of the application and of the export
ScanApplicationDependencies(appUID) ==
    /\ scanPc = "done"
    /\ callResult = NoResult
    /\ IF appUID = "malformed"
       THEN /\ callResult' = [err |-> "invalid app ID", result |-> NoResult]
            /\ UNCHANGED <<sbomData, sbomDocs, saveOutcome, objectStorage>>
       ELSE IF appUID \notin Apps
       THEN /\ callResult' = [err |-> "application not found", result |-> NoResult]
            /\ UNCHANGED <<sbomData, sbomDocs, saveOutcome, objectStorage>>
       ELSE IF RuntimeOf(appUID) = "noID"
       THEN /\ callResult' = [err |-> ErrNilPanic, result |-> NoResult]
            /\ UNCHANGED <<sbomData, sbomDocs, saveOutcome, objectStorage>>
       ELSE IF RuntimeOf(appUID) = "missing"
       THEN /\ callResult' = [err |-> "failed to fetch runtime info for application",
                              result |-> NoResult]
            /\ UNCHANGED <<sbomData, sbomDocs, saveOutcome, objectStorage>>
       ELSE \E keep \in SUBSET (1..Len(dependencies)) :
              LET fs == SelectAt([i \in 1..Len(dependencies) |->
                                     AppFindingOf(dependencies[i], worker[i].result)],
                                 keep, 1)
                  dwv == SelectAt(depsWithVulns, keep, 1)
                  res == SelectAt([i \in 1..Len(dependencies) |-> worker[i].result],
                                  keep, 1)
                  tot == [Critical |-> SumField(res, "CriticalCount"),
                          High |-> SumField(res, "HighCount"),
                          Medium |-> SumField(res, "MediumCount"),
                          Low |-> SumField(res, "LowCount")]
              IN ExportTail(appUID, fs, dwv, tot)
    /\ ExportFrame

\* a second export of the data of the last one
Reexport ==
    /\ sbomData # NoResult
    /\ Len(sbomDocs) = 1
    /\ \E now \in Times, serial \in UUIDs :
       \E dependsOn \in DependsOnOrders(sbomData.Dependencies) :
         sbomDocs' = Append(sbomDocs,
             GenerateEnhancedCycloneDXSBOM(sbomData, now, serial, dependsOn))
    /\ UNCHANGED <<sbomData, saveOutcome, objectStorage, callResult>>
    /\ ExportFrame

ExportNext ==
    \/ ScanDependencies
    \/ \E a \in AppIDs : ScanApplicationDependencies(a)
    \/ Reexport

ExportSpec == ExportInit /\ [][ExportNext]_vars

\* ------------------------------------------------------------------------
\* ApplicationService.ScanApplicationDependencies: the fan-out
\* ------------------------------------------------------------------------
\* the call has found the application, its dependencies and its runtime and
\* is about to loop over the dependencies; maxConcurrent is the maximum the
\* services' scanner is configured with (the loop does not consult it)
AppScanInit ==
    /\ RegInit /\ PureIdle /\ ExportIdle
    /\ maxConcurrent \in {NewSharedScanner(m) : m \in 0..MaxConcurrentArg}
    /\ dependencies \in DepLists
    /\ ctxDone = FALSE
    /\ scanPc = "apploop"
    /\ nextDep = 1
    /\ semaphore = 0
    /\ semClosed = FALSE
    /\ wg = 0
    /\ worker = [i \in 1..Len(dependencies) |-> IdleWorker]
    /\ findings = <<>>
    /\ depsWithVulns = <<>>
    /\ totals = ZeroTotals
    /\ findingOf = [i \in 1..Len(dependencies) |-> NoFinding]

\* one loop iteration: wg.Add(1), start the goroutine
AppScanSpawn ==
    /\ scanPc = "apploop"
    /\ nextDep <= Len(dependencies)
    /\ wg' = wg + 1
    /\ worker' = [worker EXCEPT ![nextDep].pc = "fetch"]
    /\ nextDep' = nextDep + 1
    /\ UNCHANGED <<maxConcurrent, dependencies, ctxDone, scanPc, semaphore,
                   semClosed, findings, depsWithVulns, totals, findingOf>>
    /\ UNCHANGED <<regVars, pureVars, exportVars>>

\* goroutine: read the dependency record; return when the read fails or the
\* record has no owner or no repo
AppWorkerFetch(i) ==
    /\ i \in DOMAIN worker
    /\ worker[i].pc = "fetch"
    /\ \E usable \in BOOLEAN :
         worker' = [worker EXCEPT ![i].pc = IF usable THEN "begin" ELSE "wgdone"]
    /\ UNCHANGED <<semaphore, wg, findings, depsWithVulns, totals, findingOf>>
    /\ WorkerFrame

\* goroutine: build the finding and append it under mu
AppWorkerMerge(i) ==
    /\ i \in DOMAIN worker
    /\ worker[i].pc = "merge"
    /\ worker' = [worker EXCEPT ![i].pc = "wgdone"]
    /\ LET dep == dependencies[i]
           result == worker[i].result
       IN IF CheckReturnsError(result)
          THEN UNCHANGED <<findings, depsWithVulns, totals, findingOf>>
          ELSE /\ findings' = Append(findings, AppFindingOf(dep, result))
               /\ depsWithVulns' = Append(depsWithVulns, DepWithVulnOf(dep, result))
               /\ totals' = [Critical |-> totals.Critical + result.CriticalCount,
                             High |-> totals.High + result.HighCount,
                             Medium |-> totals.Medium + result.MediumCount,
                             Low |-> totals.Low + result.LowCount]
               /\ findingOf' = [findingOf EXCEPT ![i] = AppFindingOf(dep, result)]
    /\ UNCHANGED <<semaphore, wg>>
    /\ WorkerFrame

\* after the loop: wg.Wait() returns and the call goes on to the summary
AppScanWait ==
    /\ scanPc = "apploop"
    /\ nextDep > Len(dependencies)
    /\ wg = 0
    /\ scanPc' = "done"
    /\ UNCHANGED <<maxConcurrent, dependencies, ctxDone, nextDep, semaphore,
                   semClosed, wg, worker, findings, depsWithVulns, totals,
                   findingOf>>
    /\ UNCHANGED <<regVars, pureVars, exportVars>>

AppScanNext ==
    \/ AppScanSpawn
    \/ AppScanWait
    \/ \E i \in 1..MaxDeps : AppWorkerFetch(i)
    \/ \E i \in 1..MaxDeps : WorkerBegin(i)
    \/ \E i \in 1..MaxDeps : WorkerPrimary(i)
    \/ \E i \in 1..MaxDeps : WorkerAlt(i)
    \/ \E i \in 1..MaxDeps : AppWorkerMerge(i)
    \/ \E i \in 1..MaxDeps : WorkerDone(i)

AppScanSpec == AppScanInit /\ [][AppScanNext]_vars

\* ------------------------------------------------------------------------
\* Registry: properties
\* ------------------------------------------------------------------------
\* goroutines launched for an application that have not returned yet
LiveTasksOf(app) == {j \in JobIDs : jobApp[j] = app /\ jpc[j] # "exited"}

\* C1: in every reachable state the activeJobs map holds at most one job
\* whose AppIDs contains a given application id.
C1_SingleJobPerApp ==
    \A a \in Apps : Cardinality(JobsOf(a)) <= 1

\* C2: a Start for an application that has a registered, running job returns
\* an error that is not a lookup failure, launches no goroutine and leaves
\* the registry unchanged.
C2_StartWhileRunningRejected ==
    [][(lastCall'.op = "Start" /\ JobsOf(lastCall'.app) # {})
         => /\ lastCall'.err \notin ({ErrNil} \cup LookupErrors)
            /\ jpc' = jpc
            /\ activeJobs' = activeJobs]_vars

\* C3: once Start(app) has returned nil and Stop(app) has then been called
\* (no further Start), eventually and from then on no job of app is in the
\* map (Status reports monitoring=false) and the job's goroutine has exited.
C3_NoLeakOnStop ==
    \A a \in Apps :
        [](hist[a] = "stopped"
             => <>[](hist[a] = "stopped"
                       => (JobsOf(a) = {} /\ LiveTasksOf(a) = {})))

\* C4: after Start(app) has returned nil (and before any Stop), a Status call
\* reports monitoring=true and a Stop call finds the job and returns nil.
C4_RegisteredWhenStartReturns ==
    [][(lastCall'.app \in Apps /\ hist[lastCall'.app] = "started")
         => /\ (lastCall'.op = "Status" => lastCall'.monitoring)
            /\ (lastCall'.op = "Stop" => lastCall'.err = ErrNil)]_vars

Workers == 1..Len(dependencies)
\* goroutines whose vulnerability lookup is in flight
InFlight == {i \in Workers : worker[i].pc \in {"primary", "alt"}}
\* goroutines started and not yet ended
LiveWorkers == {i \in Workers : worker[i].pc \notin {"unborn", "exited"}}
\* goroutines that have not yet given their semaphore slot back
SlotHolders ==
    {i \in Workers : worker[i].pc \in {"begin", "primary", "alt", "merge", "release"}}

\* C6 as stated: neither the lookups in flight nor the live worker
\* goroutines ever outnumber maxConcurrent.
C6_LookupsAndGoroutinesCapped ==
    /\ Cardinality(InFlight) <= maxConcurrent
    /\ Cardinality(LiveWorkers) <= maxConcurrent

\* C6 amended: the lookups in flight, and the worker goroutines that still
\* hold their semaphore slot, never outnumber maxConcurrent (a goroutine that
\* has released its slot and not yet returned is outside the cap).
C6_LookupsCapped ==
    /\ Cardinality(InFlight) <= maxConcurrent
    /\ Cardinality(SlotHolders) <= maxConcurrent
    /\ semaphore <= maxConcurrent

\* more dependencies than slots, every slot busy with a lookup, one
\* dependency still waiting
C6_Witness ==
    /\ scanPc = "loop"
    /\ Len(dependencies) > maxConcurrent
    /\ Cardinality(InFlight) = maxConcurrent
    /\ nextDep <= Len(dependencies)

\* the lookups of dependency i failed, alternates included
LookupFailed(i) ==
    /\ worker[i].result # NoResult
    /\ worker[i].result.Error = "OSV check failed"

\* how often f occurs in the sequence fs
Occurrences(fs, f) == Cardinality({k \in 1..Len(fs) : fs[k] = f})

\* the finding of a dependency in a scan in which no lookup fails
FindingWithoutFailure(dep) ==
    FindingOf(dep, LookupResult(OSVVulns(OSVQuery(NormalizeDependencyInfo(dep))),
                                FALSE))

\* C7: a scan whose context is not cancelled returns exactly one finding per
\* input dependency whatever lookups fail, and the finding of a dependency
\* whose lookup succeeded is the one of a scan without failures.
C7_PartialFailureIsolation ==
    (scanPc = "done" /\ ~ctxDone)
      => /\ Len(findings) = Len(dependencies)
         /\ \A i \in Workers :
              /\ findingOf[i] # NoFinding
              /\ Occurrences(findings, findingOf[i])
                   = Occurrences(findingOf, findingOf[i])
              /\ worker[i].primaryOk
                   => findingOf[i] = FindingWithoutFailure(dependencies[i])

\* a finished scan in which one dependency's lookups failed and another's
\* succeeded
C7_Witness ==
    /\ scanPc = "done" /\ ~ctxDone
    /\ \E i, j \in Workers : LookupFailed(i) /\ worker[j].primaryOk

\* C8: the finding of a dependency whose lookups failed has no vulnerability
\* id and differs from the finding the same dependency gets when its lookup
\* succeeds and finds nothing.
C8_FailedLookupAnnotated ==
    scanPc = "done"
      => \A i \in Workers :
           (LookupFailed(i) /\ findingOf[i] # NoFinding)
             => /\ Len(findingOf[i].VulnerabilityIDs) = 0
                /\ findingOf[i] # FindingOf(dependencies[i],
                                            LookupResult(<<>>, FALSE))

\* ------------------------------------------------------------------------
\* Helpers: properties
\* ------------------------------------------------------------------------
\* C9: AggregateVulnerabilitySummary returns the same summary for every
\* permutation of a findings list.
C9_AggregationOrderIndependent ==
    /\ \A perm \in Permutations(1..Len(findingsIn)) :
         AggregateVulnerabilitySummary(
             [i \in 1..Len(findingsIn) |-> findingsIn[perm[i]]])
           = AggregateVulnerabilitySummary(findingsIn)
    /\ (summaryOut # NoResult /\ prevSummary # NoResult)
         => summaryOut = prevSummary

\* a list whose findings fall in different buckets was summarized in two
\* orders
C9_Witness ==
    /\ summaryOut # NoResult /\ prevSummary # NoResult
    /\ \E i, j \in 1..Len(findingsIn) :
         BucketOf(findingsIn[i]) # BucketOf(findingsIn[j])

\* the count a summary holds for a severity bucket
SummaryCount(summary, sev) ==
    CASE sev = "critical" -> summary.Critical
      [] sev = "high" -> summary.High
      [] sev = "medium" -> summary.Medium
      [] sev = "low" -> summary.Low

\* the severity a failure reason cites
ReasonSeverity(reason) ==
    CASE reason = ReasonCritical -> "critical"
      [] reason = ReasonHigh -> "high"
      [] OTHER -> "none"

\* positions of failOn whose severity has a nonzero count in the summary
Matching == {i \in 1..Len(failOn) : SummaryCount(summaryOut, failOn[i]) > 0}

\* C10: when several severities named in failOn have a nonzero count,
\* EvaluatePolicy fails with the reason of the one that comes first in
\* failOn; with failOn = [critical, high], critical=0/high=2 cites high and
\* critical=1/high=2 cites critical.
C10_PolicyFirstMatch ==
    policyOut # NoResult
      => /\ Cardinality({failOn[i] : i \in Matching}) >= 2
              => /\ policyOut.status = "fail"
                 /\ ReasonSeverity(policyOut.reason)
                      = failOn[CHOOSE i \in Matching : \A k \in Matching : i <= k]
         /\ (failOn = <<"critical", "high">> /\ summaryOut.High = 2)
              => /\ policyOut.status = "fail"
                 /\ summaryOut.Critical = 0 => policyOut.reason = ReasonHigh
                 /\ summaryOut.Critical = 1 => policyOut.reason = ReasonCritical

\* C11: for every summary and every failOn list over the severity buckets,
\* EvaluatePolicy returns fail exactly when a severity named in failOn has a
\* nonzero count in the summary, and pass when none has.
C11_PolicyFailsIffNamedNonzero ==
    policyOut # NoResult
      => /\ policyOut.status \in {"fail", "pass"}
         /\ policyOut.status = "fail" <=> Matching # {}

\* ------------------------------------------------------------------------
\* Single-dependency scans: properties
\* ------------------------------------------------------------------------
\* the lookup source holds exactly one vulnerability for dep, a critical one
SourceReportsOneCritical(dep) ==
    LET ids == OSVVulns(OSVQuery(NormalizeDependencyInfo(dep)))
    IN Len(ids) = 1 /\ SourceSeverity(ids[1]) = "CRITICAL"

\* C12: a scan of a single dependency for which the lookup source returns
\* one critical vulnerability yields, through lookup conversion, finding
\* severity and AggregateVulnerabilitySummary, a summary with
\* total_dependencies=1, total_vulnerabilities=1, critical=1, high=0, and
\* EvaluatePolicy(summary, [critical, high]) returns
\* (fail, "Critical severity vulnerabilities found").
C12_CriticalScenario ==
    (/\ scanPc = "done"
     /\ Len(dependencies) = 1
     /\ worker[1].primaryOk
     /\ SourceReportsOneCritical(dependencies[1]))
      => LET summary == AggregateVulnerabilitySummary(findings) IN
         /\ summary.TotalDependencies = 1
         /\ summary.TotalVulnerabilities = 1
         /\ summary.Critical = 1
         /\ summary.High = 0
         /\ EvaluatePolicy(summary, <<"critical", "high">>)
              = [status |-> "fail", reason |-> ReasonCritical]

\* a dependency whose normalized name or version is empty or whose runtime
\* is not a supported ecosystem
InvalidForCVECheck(dep) ==
    \/ NormalizeName(dep.Name, dep.Runtime) = <<>>
    \/ NormalizeVersion(dep.Version) = <<>>
    \/ ToLowerRuntime(dep.Runtime) \notin CVESupportedRuntimes

\* C18: for a dependency whose normalized name or version is empty or whose
\* runtime is not supported, CheckDependencyVulnerabilities issues no lookup
\* (neither under the normalized name nor under an alternate) and hands its
\* caller a result whose Error is the validation message, without
\* vulnerabilities or recommendations.
C18_InvalidRejectedBeforeLookup ==
    \A i \in Workers :
        InvalidForCVECheck(dependencies[i])
          => /\ worker[i].pc \notin {"primary", "alt"}
             /\ ~worker[i].primaryOk
             /\ worker[i].alt = 0
             /\ worker[i].pc = "merge" => worker[i].result # NoResult
             /\ worker[i].result # NoResult
                  => /\ worker[i].result = InvalidResult
                     /\ worker[i].result.Error
                          = "Invalid dependency for CVE check"

\* the call has returned for a dependency with an unsupported runtime, for
\* one whose version is empty only once normalized, and for a blank name
C18_Witness ==
    \E i \in Workers :
        /\ worker[i].pc = "exited"
        /\ worker[i].result = InvalidResult
        /\ \/ dependencies[i].Runtime = "cobol"
           \/ dependencies[i].Version = <<"^">>
           \/ dependencies[i].Name = <<" ">>

\* the bucket a finding belongs to: none without vulnerability ids, else its
\* severity (letter case aside) when that is a severity bucket, else ignored
BucketByRule(f) ==
    CASE f.VulnerabilityIDs = <<>> -> "none"
      [] f.VulnerabilityIDs # <<>>
           /\ ToLowerSeverity(f.Severity) \in PolicySeverities
           -> ToLowerSeverity(f.Severity)
      [] OTHER -> "ignored"

\* the count a summary holds for any bucket
SummaryBucket(summary, b) ==
    CASE b = "none" -> summary.None
      [] b = "ignored" -> summary.Ignored
      [] OTHER -> SummaryCount(summary, b)

\* the vulnerability ids of all findings of a list, counted
RECURSIVE TotalIDs(_)
TotalIDs(fs) ==
    IF fs = <<>> THEN 0
    ELSE Len(Head(fs).VulnerabilityIDs) + TotalIDs(Tail(fs))

\* C13: AggregateVulnerabilitySummary counts every finding in exactly one
\* bucket (none without vulnerability ids, else the bucket of its severity
\* when that is critical, high, medium or low, else ignored), so the six
\* buckets add up to total_dependencies = the number of findings, and
\* total_vulnerabilities is the sum of the findings' vulnerability-id counts.
C13_BucketsPartitionFindings ==
    summaryOut # NoResult
      => /\ \A b \in PolicySeverities \cup {"none", "ignored"} :
              SummaryBucket(summaryOut, b)
                = Cardinality({i \in 1..Len(findingsIn) :
                                  BucketByRule(findingsIn[i]) = b})
         /\ summaryOut.Critical + summaryOut.High + summaryOut.Medium
              + summaryOut.Low + summaryOut.None + summaryOut.Ignored
              = summaryOut.TotalDependencies
         /\ summaryOut.TotalDependencies = Len(findingsIn)
         /\ summaryOut.TotalVulnerabilities = TotalIDs(findingsIn)

\* a summarized list with a finding without ids, one of an unknown severity
\* with ids, and one of a known severity with ids
C13_Witness ==
    /\ summaryOut # NoResult
    /\ summaryOut.None > 0 /\ summaryOut.Ignored > 0 /\ summaryOut.High > 0
    /\ \E i \in 1..Len(findingsIn) :
         findingsIn[i].Severity = "critical" /\ findingsIn[i].VulnerabilityIDs = <<>>

\* ------------------------------------------------------------------------
\* Export: properties
\* ------------------------------------------------------------------------
\* C14: two exports of identical input (same application metadata, same
\* dependencies with the same vulnerabilities, same scan timestamp) through
\* GenerateEnhancedCycloneDXSBOM yield byte-identical documents.
C14_ReexportByteIdentical ==
    Len(sbomDocs) = 2 => sbomDocs[1] = sbomDocs[2]

\* the vulnerability ids of a sequence of VulnerabilityInfo
IDsOf(vulns) == [k \in 1..Len(vulns) |-> vulns[k].ID]

\* C15: when the object-storage write of the exported document fails, the
\* scan call (ScanDependencies, ScanApplicationDependencies) returns no error
\* and the complete scan result: one finding per scanned dependency, and the
\* summary and policy computed from those findings, as when the write
\* succeeds.
C15_StorageFailureKeepsResult ==
    saveOutcome = "failed"
      => /\ callResult.err = ErrNil
         /\ callResult.result # NoResult
         /\ LET r == callResult.result IN
            /\ r.ScanStatus = "completed"
            /\ Len(r.Findings) = Len(sbomData.Dependencies)
            /\ \A i \in 1..Len(r.Findings) :
                 /\ r.Findings[i].Version = sbomData.Dependencies[i].Version
                 /\ r.Findings[i].VulnerabilityIDs
                      = IDsOf(sbomData.Dependencies[i].Vulnerabilities)
            /\ r.Summary = AggregateVulnerabilitySummary(r.Findings)
            /\ r.Policies.Status = EvaluatePolicy(r.Summary, ScanFailOn).status
            /\ r.Policies.Reason = EvaluatePolicy(r.Summary, ScanFailOn).reason
            /\ r = ScanApplicationResultOf(r.AppID, r.Findings)

\* a scan call with vulnerable findings has returned after its storage write
\* failed, and nothing was stored
C15_Witness ==
    /\ saveOutcome = "failed"
    /\ objectStorage = {}
    /\ callResult # NoResult
    /\ callResult.err = ErrNil
    /\ callResult.result.Summary.TotalVulnerabilities > 0

\* ------------------------------------------------------------------------
\* Registry: tick outcomes and locking
\* ------------------------------------------------------------------------
\* C16: no tick outcome ends a monitoring job: the tick (whether the fetch
\* failed, there was no dependency, a lookup failed or the SBOM could not be
\* stored) ends back at the select with the job still registered unless a
\* Stop removed it meanwhile; a job's goroutine leaves its loop only once
\* its stop channel is closed, and only a successful Stop of the job's
\* application closes it.
C16_TickFailuresNotFatal ==
    [][\A j \in JobIDs :
         /\ (jpc[j] = "tick" /\ jpc'[j] # "tick")
              => /\ jpc'[j] = "select"
                 /\ StopChan'[j] = "open" => j \in activeJobs'
                 /\ (j \in activeJobs') = (j \in activeJobs)
         /\ (jpc'[j] # jpc[j] /\ jpc'[j] \in {"cleanup", "exited"})
              => StopChan[j] = "closed"
         /\ (StopChan[j] # "closed" /\ StopChan'[j] = "closed")
              => /\ lastCall'.op = "Stop"
                 /\ lastCall'.app = jobApp[j]
                 /\ lastCall'.err = ErrNil]_vars

\* ------------------------------------------------------------------------
\* Scanner: termination
\* ------------------------------------------------------------------------
\* a step of the calling goroutine or of a worker goroutine
ScanStep ==
    \/ ScanEnter
    \/ ScanSpawn
    \/ ScanWait
    \/ \E i \in 1..MaxDeps :
         \/ WorkerBegin(i) \/ WorkerPrimary(i) \/ WorkerAlt(i)
         \/ WorkerMerge(i) \/ WorkerRelease(i) \/ WorkerDone(i)

\* some goroutine can take a step: ENABLED <<ScanStep>>_vars spelled out
\* from the guards of the steps
ScanStepEnabled ==
    \/ scanPc = "enter"
    \/ scanPc = "loop" /\ nextDep <= Len(dependencies) /\ semaphore < maxConcurrent
    \/ scanPc = "loop" /\ nextDep > Len(dependencies) /\ wg = 0
    \/ \E i \in DOMAIN worker :
         \/ worker[i].pc \in {"begin", "primary", "alt", "merge", "wgdone"}
         \/ worker[i].pc = "release" /\ (semaphore > 0 \/ semClosed)

\* the scheduler runs some runnable goroutine, and every started lookup
\* returns: weak fairness of ScanStep; nothing is assumed about the caller's
\* cancellation
FairScanSpec ==
    /\ ScanInit /\ [][ScanNext]_vars
    /\ ([]<>(~ScanStepEnabled) \/ []<><<ScanStep>>_vars)

\* C17: ScanDependenciesWithControl terminates for every dependency list and
\* every moment of cancellation, provided each started lookup returns; when
\* it has returned every goroutine has ended and every semaphore slot is
\* released, a goroutine's deferred receive never finds the channel empty
\* and open, and nothing is sent on the semaphore once it is closed.
C17_ScanTerminates ==
    /\ <>(scanPc = "done")
    /\ [](scanPc = "done"
            => /\ semaphore = 0
               /\ wg = 0
               /\ SlotHolders = {}
               /\ LiveWorkers = {})
    /\ [](\A i \in Workers :
             worker[i].pc = "release" => (semaphore > 0 /\ ~semClosed))
    /\ [](semClosed => (scanPc = "done" /\ nextDep > Len(dependencies)))

\* a scan of more dependencies than slots has returned after a cancellation
\* that came between two goroutines: one appended its finding, one returned
\* at its cancellation check
C17_Witness ==
    /\ scanPc = "done"
    /\ ctxDone
    /\ Len(dependencies) > maxConcurrent
    /\ \E i, j \in Workers :
         /\ worker[i].result = NoResult /\ worker[i].pc = "exited"
         /\ findingOf[j] # NoFinding

\* ------------------------------------------------------------------------
\* Registry: locking discipline
\* ------------------------------------------------------------------------
\* what a step touches of the shared state and the mode in which it holds
\* jobsMutex meanwhile: the goroutine inserts and deletes under Lock, reads
\* len(s.activeJobs) and writes jobContext.Progress with no lock; Stop runs
\* under Lock, Status under RLock
StepAccess(step) ==
    CASE step = "JobRegister"
           -> [lock |-> "Lock", reads |-> {}, writes |-> {"activeJobs"}]
      [] step = "JobLogCount"
           -> [lock |-> "none", reads |-> {"activeJobs"}, writes |-> {}]
      [] step = "JobTickEnd"
           -> [lock |-> "none", reads |-> {}, writes |-> {"Progress"}]
      [] step = "JobCleanup"
           -> [lock |-> "Lock", reads |-> {}, writes |-> {"activeJobs"}]
      [] step = "Stop"
           -> [lock |-> "Lock", reads |-> {"activeJobs"},
               writes |-> {"activeJobs"}]
      [] step = "Status"
           -> [lock |-> "RLock", reads |-> {"activeJobs", "Progress"},
               writes |-> {}]
      [] OTHER -> [lock |-> "none", reads |-> {}, writes |-> {}]

\* the step a job's goroutine is about to take or is in the middle of; a
\* goroutine blocked in its select takes none
NextStep(j) ==
    CASE jpc[j] = "spawned" -> "JobRegister"
      [] jpc[j] = "logcount" -> "JobLogCount"
      [] jpc[j] = "tick" -> "JobTickEnd"
      [] jpc[j] = "cleanup" -> "JobCleanup"
      [] OTHER -> "none"

\* two steps of different goroutines race on a location: one writes it, the
\* other reads or writes it, and jobsMutex does not order them
RaceOn(loc, a, b) ==
    /\ \/ loc \in a.writes /\ loc \in (b.reads \cup b.writes)
       \/ loc \in b.writes /\ loc \in (a.reads \cup a.writes)
    /\ a.lock = "none" \/ b.lock = "none"

\* C19: every access to the activeJobs map happens while jobsMutex is held:
\* in no reachable state is an access of one goroutine to the map
\* concurrent with a write of another without the lock ordering them.
C19_MapAccessesUnderLock ==
    \A j, k \in JobIDs :
        j # k => ~RaceOn("activeJobs", StepAccess(NextStep(j)),
                         StepAccess(NextStep(k)))

\* C20: every write of a registered job's progress is ordered with the
\* reads of GetMonitoringStatus by the registry lock: no Status call that
\* finds a job runs while the job's tick is writing the progress it reads.
C20_StatusSnapshotConsistent ==
    [][(lastCall'.op = "Status" /\ lastCall'.monitoring)
         => \A j \in JobsOf(lastCall'.app) :
               ~RaceOn("Progress", StepAccess("Status"),
                       StepAccess(NextStep(j)))]_vars

\* ------------------------------------------------------------------------
\* Registry: ownership of the stop channel
\* ------------------------------------------------------------------------
\* C21: under any interleaving of Stop calls and of the goroutines' deferred
\* cleanup, no stop channel is closed twice (no close panics), a closed
\* channel stays closed, a channel is closed only by a Stop of the job's
\* application that returned nil and found the job in the map, and the job
\* of a closed channel is no longer in the map for a later Stop to find.
C21_StopChanClosedOnce ==
    [][/\ lastCall'.err # ErrClosePanic
       /\ \A j \in JobIDs :
            /\ StopChan[j] = "closed" => StopChan'[j] = "closed"
            /\ StopChan'[j] = "closed" => j \notin activeJobs'
            /\ (StopChan[j] # "closed" /\ StopChan'[j] = "closed")
                 => /\ j \in activeJobs
                    /\ lastCall'.op = "Stop"
                    /\ lastCall'.app = jobApp[j]
                    /\ lastCall'.err = ErrNil]_vars

\* a Stop of an application has just run after an earlier Stop closed the
\* channel of its job and the job's deferred cleanup ran
C21_Witness ==
    /\ lastCall.op = "Stop"
    /\ lastCall.app \in Apps
    /\ lastCall.err = ErrJobNotFound
    /\ ~panicked
    /\ \E j \in JobIDs :
         /\ jobApp[j] = lastCall.app
         /\ StopChan[j] = "closed"
         /\ jpc[j] = "exited"

\* C22: once a Stop has closed a job's stop channel (Stop returned nil), the
\* job's goroutine starts no new tick: its tick count stays as it is, and
\* the step that takes it out of the select leads to the return and the
\* deferred cleanup, never into a tick, also when the ticker has fired.
C22_NoTickAfterStop ==
    [][\A j \in JobIDs :
         StopChan[j] = "closed"
           => /\ ticks'[j] = ticks[j]
              /\ (jpc[j] = "select" /\ jpc'[j] # "select")
                   => jpc'[j] = "cleanup"]_vars

\* ------------------------------------------------------------------------
\* Registry: the failure counter
\* ------------------------------------------------------------------------
\* C23: no step of a job lowers its FailedChecks, and the step that ends a
\* tick in which the dependency fetch or a vulnerability lookup failed
\* raises it; so after such a tick the counter is greater than before the
\* tick, and over the job's lifetime it never decreases.
C23_FailedChecksCountsFailures ==
    [][\A j \in JobIDs :
         /\ Progress'[j].FailedChecks >= Progress[j].FailedChecks
         /\ (/\ jpc[j] = "tick" /\ jpc'[j] # "tick"
             /\ lastCall'.op = "Tick"
             /\ lastCall'.err \in {"failed to get app dependencies",
                                   "failed to check OSV database"})
              => Progress'[j].FailedChecks > Progress[j].FailedChecks]_vars

\* ------------------------------------------------------------------------
\* ApplicationService.ScanApplicationDependencies: concurrency
\* ------------------------------------------------------------------------
\* C24: during a ScanApplicationDependencies call neither the vulnerability
\* lookups in flight nor the worker goroutines started and not yet ended
\* outnumber the configured maximum, however many dependencies the
\* application has.
C24_AppScanCapped ==
    /\ Cardinality(InFlight) <= maxConcurrent
    /\ Cardinality(LiveWorkers) <= maxConcurrent

\* ------------------------------------------------------------------------
\* Export: entries of the document
\* ------------------------------------------------------------------------
\* the vulnerability ids reported for the dependencies of an export
ReportedIDs(deps) ==
    UNION {{deps[i].Vulnerabilities[k].ID : k \in 1..Len(deps[i].Vulnerabilities)} :
              i \in 1..Len(deps)}

\* the component references of the dependencies an id is reported for
AffectedRefs(deps, id) ==
    {generateBomRef(deps[i].Name, deps[i].Version) :
        i \in {n \in 1..Len(deps) :
                 \E k \in 1..Len(deps[n].Vulnerabilities) :
                    deps[n].Vulnerabilities[k].ID = id}}

\* the component references a vulnerability entry names
EntryRefs(entry) == {entry.Affects[k].Ref : k \in 1..Len(entry.Affects)}

\* C25: the exported document has one component entry per dependency and
\* as many vulnerability entries as there are distinct vulnerability ids,
\* and for every reported id an entry that references every component the
\* id is reported for.
C25_OneEntryPerVulnerability ==
    \A d \in 1..Len(sbomDocs) :
        LET doc == sbomDocs[d]
            deps == sbomData.Dependencies
        IN /\ Len(doc.Components) = Len(deps)
           /\ Len(doc.Vulnerabilities) = Cardinality(ReportedIDs(deps))
           /\ \A id \in ReportedIDs(deps) :
                 AffectedRefs(deps, id) # {}
                   => \E e \in 1..Len(doc.Vulnerabilities) :
                         AffectedRefs(deps, id) \subseteq EntryRefs(doc.Vulnerabilities[e])

\* ------------------------------------------------------------------------
\* CheckDependencyVulnerabilities: retries under alternate names
\* ------------------------------------------------------------------------
\* C26: when the lookup under the first name failed and a lookup under an
\* alternate name returned without error, with or without vulnerabilities,
\* the result carries no error annotation and holds the vulnerabilities
\* the lookup under one of the alternates tried returned.
C26_AlternateSwallowsFailure ==
    \A i \in Workers :
        (worker[i].result # NoResult /\ ~worker[i].primaryOk /\ worker[i].altOk)
          => /\ worker[i].result.Error = ""
             /\ \E k \in 2..Len(worker[i].lookups) :
                   IDsOf(worker[i].result.Vulnerabilities)
                     = OSVVulns(OSVQuery([NormalizeDependencyInfo(dependencies[i])
                                             EXCEPT !.Name = worker[i].lookups[k]]))

\* C26 amended: when the lookup under the first name failed and a lookup
\* under an alternate name returned without error and with at least one
\* vulnerability, the result carries no error annotation and holds the
\* vulnerabilities of that alternate; when no alternate did so (also when
\* one returned without error and without vulnerabilities) the result keeps
\* the annotation of the failure and holds no vulnerability.
C26_AlternateWithVulnsSwallowsFailure ==
    \A i \in Workers :
        (worker[i].result # NoResult /\ ~worker[i].primaryOk
           /\ worker[i].lookups # <<>>)
          => LET lk == worker[i].lookups
                 last == [NormalizeDependencyInfo(dependencies[i])
                             EXCEPT !.Name = lk[Len(lk)]]
             IN IF worker[i].altHit
                THEN /\ worker[i].result.Error = ""
                     /\ Len(lk) >= 2
                     /\ worker[i].result.Vulnerabilities # <<>>
                     /\ IDsOf(worker[i].result.Vulnerabilities)
                          = OSVVulns(OSVQuery(last))
                ELSE /\ worker[i].result.Error = "OSV check failed"
                     /\ worker[i].result.Vulnerabilities = <<>>

\* the first lookup of a dependency failed, the lookup under its alternate
\* name returned vulnerabilities, and the finding was appended
C26_Witness ==
    \E i \in Workers :
        /\ worker[i].pc = "exited"
        /\ ~worker[i].primaryOk
        /\ worker[i].altHit
        /\ Len(worker[i].lookups) = 2
        /\ worker[i].result.Error = ""
        /\ findingOf[i] # NoFinding
        /\ Len(findingOf[i].VulnerabilityIDs) > 0

C28_MissingRuntimeNoCrash ==
    [][/\ (/\ lastCall'.op = "Start"
           /\ lastCall'.app \in Apps
           /\ RuntimeOf(lastCall'.app) # "present")
            => /\ lastCall'.err \notin {ErrNil, ErrNilPanic}
               /\ jpc' = jpc
               /\ activeJobs' = activeJobs
       /\ lastCall'.err # ErrNilPanic
       /\ ~panicked']_vars

\* the select of job j can take a tick
CanTick(j) == ~panicked /\ jpc[j] = "select" /\ ticks[j] < MaxTicks

\* C29: StopMonitoringApplication(appA) touches only a job of appA: for every
\* job of another application the registry entry, the stop channel (open
\* while registered), the progress and the goroutine's position are
\* unchanged and a job that could tick still can; a Stop that returns an
\* error changes nothing of the registry
C29_StopFrame ==
    [][lastCall'.op = "Stop" =>
        /\ \A j \in JobIDs : jobApp[j] # lastCall'.app =>
              /\ (j \in activeJobs') = (j \in activeJobs)
              /\ StopChan'[j] = StopChan[j]
              /\ j \in activeJobs => StopChan'[j] = "open"
              /\ Progress'[j] = Progress[j]
              /\ jpc'[j] = jpc[j]
              /\ ticks'[j] = ticks[j]
              /\ CanTick(j) => CanTick(j)'
        /\ jobApp' = jobApp
        /\ lastCall'.err # ErrNil =>
              /\ activeJobs' = activeJobs
              /\ StopChan' = StopChan
              /\ Progress' = Progress
              /\ jpc' = jpc
              /\ ticks' = ticks
              /\ panicked' = panicked]_vars

\* a Stop has just removed a job of one application while a job of another
\* application, which has ticked, is registered with an open stop channel
\* and waits in its select
C29_Witness ==
    /\ lastCall.op = "Stop"
    /\ lastCall.err = ErrNil
    /\ \E j \in activeJobs :
          /\ jobApp[j] # lastCall.app
          /\ StopChan[j] = "open"
          /\ ticks[j] >= 1
          /\ jpc[j] = "select"
    /\ \E k \in JobIDs :
          /\ jobApp[k] = lastCall.app
          /\ StopChan[k] = "closed"
          /\ k \notin activeJobs

\* ------------------------------------------------------------------------
\* Runtime names: the services' list against the CVE helper's
\* ------------------------------------------------------------------------
\* isRuntimeSupported of the dependencies service
isRuntimeSupported(runtime) ==
    ToLowerRuntime(runtime)
        \in {"node.js", "python", "java", "go", "ruby", "php", "dotnet",
             "gradle"}

\* the runtime names Seed stores, which applications refer to and the
\* monitoring tick passes as the runtime of each dependency
SeededRuntimes ==
    {"Node.js", "Python", "Java", "Go", "Ruby", "PHP", "DotNet", "Gradle"}

\* the runtime names the services accept
ServiceRuntimes ==
    {r \in SeededRuntimes \cup CVESupportedRuntimes
           \cup {"node.js", "Rust", "cobol", ""} : isRuntimeSupported(r)}
    \cup SeededRuntimes

\* C30: every runtime name the services accept passes ValidateForCVECheck
\* and has a non-empty ecosystem, and a dependency of such a runtime whose
\* normalized name and version are not blank is looked up before its check
\* returns
C30_SupportedRuntimeLookedUp ==
    \A i \in Workers :
        LET nd == NormalizeDependencyInfo(dependencies[i]) IN
        (/\ dependencies[i].Runtime \in ServiceRuntimes
         /\ TrimSpace(nd.Name) # <<>>
         /\ TrimSpace(nd.Version) # <<>>
         /\ worker[i].pc \in {"merge", "exited"})
          => /\ ValidateForCVECheck(nd)
             /\ getEcosystemForRuntime(nd.Runtime) # ""
             /\ worker[i].lookups # <<>>
             /\ worker[i].result # InvalidResult
====
